---- MODULE Spec2Model ----
(***************************************************************************)
(* A model of the congen constituent generator (libcongen.cc): the         *)
(* calendar primitives, the term evaluators, the Constituent algebra, the  *)
(* three constructors with the Compound base cache, and the legacy catalog *)
(* parser parseLegacyInput with the iostream state it relies on.           *)
(*                                                                         *)
(* Numbers.  The doubles of the program are modelled as exact terms: a     *)
(* value is a linear form with integer coefficients over named             *)
(* astronomical quantities ("atoms": s(t), h(t), xi(t), ...).  A form is a *)
(* function from atoms to non-zero integers; the empty function is 0.      *)
(* Node factors are kept as the linear form of their logarithm, so that a  *)
(* product is a sum of forms, pow(f,|x|) is a scaling by |x| and f = 1 is  *)
(* the empty form.  Floating-point rounding is not modelled.  The numeric  *)
(* literals of the catalog are integers.                                   *)
(*                                                                         *)
(* Time.  Congen::time_t counts seconds; the model counts units of 43200   *)
(* seconds (half days), in which every startYear and midYear is a whole    *)
(* number that fits the integers of the model checker.                     *)
(***************************************************************************)
EXTENDS Integers, Sequences, FiniteSets, TLC

\* ------------------------------------------------------------------ bounds
\* The years the model draws firstYear, lastYear and epochForSpeed from are
\* BaseYear .. BaseYear + YearSpan.
BaseYear == 1999
YearSpan == 1
\* Compound coefficients are drawn from -MaxCoef .. MaxCoef.
MaxCoef == 1
\* A catalog has at most MaxLines lines.
MaxLines == 3
\* At most MaxSteps algebra operations follow a constructor call.
MaxSteps == 2
\* satellite blocks declared by a Doodson record of the parser inputs
MaxSats == 2
\* decimals of normalize and snormalize; turns of 360 degrees in their inputs
MaxDecimals == 2

MaxTurns == 2
\* line breaks placed inside one Doodson record
MaxBreaks == 2

\* ------------------------------------------------- constants of the header
numVterms == 6
numuterms == 7
numCompoundBases == 13
T_index == 0
p_index == 3
p1_index == 4
c_index == 5
xi_index == 0
nu_index == 1
nup_index == 2
nupp2_index == 3
R_index == 4
Q_index == 5
Qu_index == 6
midyear_N_index == 0
midyear_p_index == 1
midyear_p1_index == 2

\* ------------------------------------------------------------ linear forms
NoSats == << >>

Atom(t, k, at) == [t |-> t, k |-> k, at |-> at, s |-> NoSats]

SatAtom(t, at, sats) == [t |-> t, k |-> 0, at |-> at, s |-> sats]

Zero == [x \in {} |-> 0]

One(a) == [x \in {a} |-> 1]

LinAdd(a, b) ==
  LET d == DOMAIN a \cup DOMAIN b
      v(x) == (IF x \in DOMAIN a THEN a[x] ELSE 0)
              + (IF x \in DOMAIN b THEN b[x] ELSE 0)
  IN  [x \in {z \in d : v(z) # 0} |-> v(x)]

LinScale(c, a) == IF c = 0 THEN Zero ELSE [x \in DOMAIN a |-> c * a[x]]

fabs(x) == IF x < 0 THEN -x ELSE x

RECURSIVE DotFrom(_, _, _)
DotFrom(coefs, terms, i) ==
  IF i > Len(coefs) THEN Zero
  ELSE LinAdd(LinScale(coefs[i], terms[i]), DotFrom(coefs, terms, i + 1))

\* (a * b).sum() of two valarrays, the second one holding forms
Dot(coefs, terms) == DotFrom(coefs, terms, 1)

\* ------------------------------------------------------ calendar primitives
\* -62135596800 s, 31536000 s and 86400 s in units of 43200 s
startYearOne == -1438324
unitsPerCommonYear == 730
unitsPerDay == 2

startYearAsserts(year) == year > 0 /\ year <= 4001

\* (mutant) the century rule is left out
startYear_NoCentury(year) ==
  LET y == year - 1
  IN  startYearOne + y * unitsPerCommonYear + (y \div 4) * unitsPerDay

startYear(year) ==
  LET y == year - 1
  IN  startYearOne + y * unitsPerCommonYear
      + ((y \div 4) - (y \div 100) + (y \div 400)) * unitsPerDay

midYearAsserts(year) == year > 0 /\ year <= 4000

\* a / b of C++ for b > 0: the quotient is truncated toward zero
TruncDiv(x, y) == IF x >= 0 THEN x \div y ELSE -((-x) \div y)

\* (mutant) half a common year after the start of the year
midYear_CommonYear(year) == startYear(year) + 365

midYear(year) == TruncDiv(startYear(year) + startYear(year + 1), 2)

\* harmgen: yearOneStart and secPerDay in units of 43200 s
yearOneStart == -1438324
secPerDay == 2

\* harmgen's copy of startYear
harmgen_startYear(year) ==
  LET y == year - 1
  IN  yearOneStart + y * unitsPerCommonYear
      + ((y \div 4) - (y \div 100) + (y \div 400)) * secPerDay

\* ---------------------------------------------------------- term evaluators
\* V_terms(t, 0): T, s, h, p, p1 are polynomials in Table_1_T(t) and stay
\* atoms of t; the constant term is 1 for every t.
\* V_terms(t, 1): the T row has no T^2 and T^3 coefficient, so its derivative
\* is the same for every t; the constant row's derivative is 0.
V_terms(t, derivative) ==
  IF derivative = 0
  THEN [i \in 1..numVterms |->
          IF i - 1 = c_index THEN One(Atom("one", 0, 0))
          ELSE One(Atom("V", i - 1, t))]
  ELSE [i \in 1..numVterms |->
          IF i - 1 = c_index THEN Zero
          ELSE IF i - 1 = T_index THEN One(Atom("dV", T_index, 0))
          ELSE One(Atom("dV", i - 1, t))]

\* midyear_terms(t, 0): N, p, p1.  p and p1 have the coefficients of the p
\* and p1 rows of V_terms, hence the same atoms.
midyear_terms(t) ==
  << One(Atom("N", 0, t)), One(Atom("V", p_index, t)), One(Atom("V", p1_index, t)) >>

\* -------------------------------------------------------- auxiliary angles
\* Each is a function of N(t1) alone, or of N(t1) and p(t1): an atom of t1.
I(t1) == One(Atom("I", 0, t1))
xi(t1) == One(Atom("xi", 0, t1))
nu(t1) == One(Atom("nu", 0, t1))
nup(t1) == One(Atom("nup", 0, t1))
nupp2(t1) == One(Atom("nupp2", 0, t1))
\* P(p, xi) = p - xi
P(p, x) == LinAdd(p, LinScale(-1, x))
Q(t1) == One(Atom("Q", 0, t1))
R(t1) == One(Atom("R", 0, t1))
\* Qu(P, Q) = P - Q
Qu(Pv, Qv) == LinAdd(Pv, LinScale(-1, Qv))

\* ------------------------------------------------------ node-factor dispatch
\* (mutant) the last case of the switch is left out
fTags_No235 == {1, 73, 74, 75, 76, 77, 78, 79, 144, 149, 206, 215, 227}

fTags == {1, 73, 74, 75, 76, 77, 78, 79, 144, 149, 206, 215, 227, 235}

\* the default branch of the switch: assert (0)
fAsserts(f_formula) == f_formula \in fTags

\* log of the node factor; f206 = f75 / Qa, f215 = f78 / Ra
f(f_formula, t1) ==
  CASE f_formula = 1 -> Zero
    [] f_formula = 206 ->
         LinAdd(One(Atom("f", 75, t1)), LinScale(-1, One(Atom("Qa", 0, t1))))
    [] f_formula = 215 ->
         LinAdd(One(Atom("f", 78, t1)), LinScale(-1, One(Atom("Ra", 0, t1))))
    [] OTHER -> One(Atom("f", f_formula, t1))

\* ------------------------------------------------------------- Constituent
Fill(n, v) == [i \in 1..n |-> v]

\* Constituent::Constituent ()
ConstituentDefault ==
  [name |-> "default", speed |-> Zero, Vpu |-> << >>, f |-> << >>]

\* Constituent::Constituent (uint16_t numYears): V0+u all 0, f all 1
ConstituentZero(numYears) ==
  [name |-> "zero", speed |-> Zero, Vpu |-> Fill(numYears, Zero),
   f |-> Fill(numYears, Zero)]

\* (mutant) f is not resized
resize_fForgotten(this, numYears) ==
  [name |-> "zero", speed |-> Zero, Vpu |-> Fill(numYears, Zero), f |-> this.f]

\* valarray::resize (n, c) gives every element the value c
resize(this, numYears) ==
  [name |-> "zero", speed |-> Zero, Vpu |-> Fill(numYears, Zero),
   f |-> Fill(numYears, Zero)]

\* operator= and the copy constructor: both series take the size and the
\* elements of x
ConstituentCopy(x) ==
  [name |-> x.name, speed |-> x.speed,
   Vpu |-> [i \in 1..Len(x.Vpu) |-> x.Vpu[i]],
   f |-> [i \in 1..Len(x.f) |-> x.f[i]]]

PlusAssignAsserts(this, x) ==
  Len(this.Vpu) = Len(x.Vpu) /\ Len(this.f) = Len(x.f)

\* (mutant) the name is left as it was
PlusAssign_KeepName(this, x) ==
  [name |-> this.name,
   speed |-> LinAdd(this.speed, x.speed),
   Vpu |-> [i \in 1..Len(this.Vpu) |-> LinAdd(this.Vpu[i], x.Vpu[i])],
   f |-> [i \in 1..Len(this.f) |-> LinAdd(this.f[i], x.f[i])]]

\* operator+= : speed and V0+u add, f multiplies
PlusAssign(this, x) ==
  [name |-> "nameless",
   speed |-> LinAdd(this.speed, x.speed),
   Vpu |-> [i \in 1..Len(this.Vpu) |-> LinAdd(this.Vpu[i], x.Vpu[i])],
   f |-> [i \in 1..Len(this.f) |-> LinAdd(this.f[i], x.f[i])]]

\* (mutant) f = pow (f, x)
TimesAssign_NoFabs(this, x) ==
  [name |-> "nameless",
   speed |-> LinScale(x, this.speed),
   Vpu |-> [i \in 1..Len(this.Vpu) |-> LinScale(x, this.Vpu[i])],
   f |-> [i \in 1..Len(this.f) |-> LinScale(x, this.f[i])]]

\* operator*= : speed and V0+u scale by x, f = pow (f, fabs(x))
TimesAssign(this, x) ==
  [name |-> "nameless",
   speed |-> LinScale(x, this.speed),
   Vpu |-> [i \in 1..Len(this.Vpu) |-> LinScale(x, this.Vpu[i])],
   f |-> [i \in 1..Len(this.f) |-> LinScale(fabs(x), this.f[i])]]

\* operator+ (x, y)
Plus(x, y) == PlusAssign(ConstituentCopy(x), y)

\* (mutant) the speed is not scaled
Times_SpeedKept(x, y) == [TimesAssign(ConstituentCopy(y), x) EXCEPT !.speed = y.speed]

\* operator* (x, y) and operator* (y, x)
Times(x, y) == TimesAssign(ConstituentCopy(y), x)

\* ------------------------------------------------------------ constructors
\* (mutant) the upper limit of the speed epoch is left out
YearAsserts_NoEpochLimit(firstYear, lastYear, epochForSpeed) ==
  /\ lastYear >= firstYear
  /\ firstYear > 0
  /\ lastYear <= 4000
  /\ epochForSpeed > 0

\* the year assertions shared by the three constructors
YearAsserts(firstYear, lastYear, epochForSpeed) ==
  /\ lastYear >= firstYear
  /\ firstYear > 0
  /\ lastYear <= 4000
  /\ epochForSpeed > 0
  /\ epochForSpeed <= 4000

\* the u terms of one year: xi, nu, nu', 2nu'', R, Q, Qu at mid-year
u_termsAt(t1) ==
  LET p_t1 == midyear_terms(t1)[midyear_p_index + 1]
      P_t1 == P(p_t1, xi(t1))
  IN  [j \in 1..numuterms |->
         CASE j - 1 = xi_index -> xi(t1)
           [] j - 1 = nu_index -> nu(t1)
           [] j - 1 = nup_index -> nup(t1)
           [] j - 1 = nupp2_index -> nupp2(t1)
           [] j - 1 = Q_index -> Q(t1)
           [] j - 1 = R_index -> R(t1)
           [] j - 1 = Qu_index -> Qu(P_t1, Q(t1))]

BasicAsserts(V_coefficients, u_coefficients, f_formula, firstYear, lastYear, epochForSpeed) ==
  /\ YearAsserts(firstYear, lastYear, epochForSpeed)
  /\ Len(V_coefficients) = numVterms
  /\ Len(u_coefficients) = numuterms
  /\ fAsserts(f_formula)

\* (mutant) the M1 special case is left out
BasicSpeed_NoM1(V_coefficients, u_coefficients, epochForSpeed) ==
  Dot(V_coefficients, V_terms(startYear(epochForSpeed), 1))

\* speed of a Basic constituent, with the M1 special case
BasicSpeed(V_coefficients, u_coefficients, epochForSpeed) ==
  LET speeds == V_terms(startYear(epochForSpeed), 1)
  IN  LinAdd(Dot(V_coefficients, speeds),
             LinScale(u_coefficients[Q_index + 1], speeds[p_index + 1]))

\* (mutant) the speed is taken at the start of firstYear
Basic_SpeedAtFirstYear(name_in, V_coefficients, u_coefficients, f_formula, firstYear, lastYear, epochForSpeed) ==
  [name |-> name_in,
   speed |-> BasicSpeed(V_coefficients, u_coefficients, firstYear),
   Vpu |-> [i \in 1..(lastYear - firstYear + 1) |->
              LET y == firstYear + i - 1
              IN  LinAdd(Dot(V_coefficients, V_terms(startYear(y), 0)),
                         Dot(u_coefficients, u_termsAt(midYear(y))))],
   f |-> [i \in 1..(lastYear - firstYear + 1) |->
              f(f_formula, midYear(firstYear + i - 1))]]

\* Constituent (name, V_coefficients, u_coefficients, f_formula, ...)
Basic(name_in, V_coefficients, u_coefficients, f_formula, firstYear, lastYear, epochForSpeed) ==
  [name |-> name_in,
   speed |-> BasicSpeed(V_coefficients, u_coefficients, epochForSpeed),
   Vpu |-> [i \in 1..(lastYear - firstYear + 1) |->
              LET y == firstYear + i - 1
              IN  LinAdd(Dot(V_coefficients, V_terms(startYear(y), 0)),
                         Dot(u_coefficients, u_termsAt(midYear(y))))],
   f |-> [i \in 1..(lastYear - firstYear + 1) |->
              f(f_formula, midYear(firstYear + i - 1))]]

DoodsonAsserts(V_coefficients, firstYear, lastYear, epochForSpeed) ==
  /\ YearAsserts(firstYear, lastYear, epochForSpeed)
  /\ Len(V_coefficients) = numVterms

\* atan2d (sinsum, cossum) and log sqrt (sinsum^2 + cossum^2) of one year:
\* functions of the satellite list and of N, p, p1 at mid-year.  With no
\* satellite cossum = 1 and sinsum = 0: the angle is 0 and the factor is 1.
\* When every satellite has dp = dN = dp1 = 0 and alpha = 0, satangle is 0,
\* cosd is 1 and sind is 0: cossum = 1 + sum of r and sinsum = 0, so the
\* factor is |1 + sum of r| and the angle is 180 if cossum < 0 and else 0.
SatAtRest(satellites) ==
  \A i \in 1..Len(satellites) :
    /\ satellites[i].dp = 0
    /\ satellites[i].dN = 0
    /\ satellites[i].dp1 = 0
    /\ satellites[i].alpha = 0

RECURSIVE SatRSum(_)
SatRSum(satellites) ==
  IF satellites = << >> THEN 0
  ELSE Head(satellites).r + SatRSum(Tail(satellites))

\* the form of log n for an integer n >= 0; the atom of n = 0 stands for a
\* factor that is 0
LogOf(n) == IF n = 1 THEN Zero ELSE One(Atom("log", n, 0))

SatArg(satellites, t1) ==
  IF satellites = << >> THEN Zero
  ELSE IF SatAtRest(satellites)
  THEN IF 1 + SatRSum(satellites) < 0
       THEN LinScale(180, One(Atom("one", 0, 0))) ELSE Zero
  ELSE One(SatAtom("satarg", t1, satellites))

SatF(satellites, t1) ==
  IF satellites = << >> THEN Zero
  ELSE IF SatAtRest(satellites) THEN LogOf(fabs(1 + SatRSum(satellites)))
  ELSE One(SatAtom("satf", t1, satellites))

\* Constituent (name, V_coefficients, satellites, ...)
Doodson(name_in, V_coefficients, satellites, firstYear, lastYear, epochForSpeed) ==
  [name |-> name_in,
   speed |-> Dot(V_coefficients, V_terms(startYear(epochForSpeed), 1)),
   Vpu |-> [i \in 1..(lastYear - firstYear + 1) |->
              LET y == firstYear + i - 1
              IN  LinAdd(Dot(V_coefficients, V_terms(startYear(y), 0)),
                         SatArg(satellites, midYear(y)))],
   f |-> [i \in 1..(lastYear - firstYear + 1) |->
              SatF(satellites, midYear(firstYear + i - 1))]]

\* The table of the 13 Compound bases: name, V, u, f tag
BaseTable ==
  << <<"O1",       <<1, -2, 1, 0, 0, 90>>,   <<2, -1, 0, 0, 0, 0, 0>>,  75>>,
     <<"K1",       <<1, 0, 1, 0, 0, -90>>,   <<0, 0, -1, 0, 0, 0, 0>>,  227>>,
     <<"P1",       <<1, 0, -1, 0, 0, 90>>,   <<0, 0, 0, 0, 0, 0, 0>>,   1>>,
     <<"M2",       <<2, -2, 2, 0, 0, 0>>,    <<2, -2, 0, 0, 0, 0, 0>>,  78>>,
     <<"S2",       <<2, 0, 0, 0, 0, 0>>,     <<0, 0, 0, 0, 0, 0, 0>>,   1>>,
     <<"N2",       <<2, -3, 2, 1, 0, 0>>,    <<2, -2, 0, 0, 0, 0, 0>>,  78>>,
     <<"L2",       <<2, -1, 2, -1, 0, 180>>, <<2, -2, 0, 0, 0, -1, 0>>, 215>>,
     <<"K2",       <<2, 0, 2, 0, 0, 0>>,     <<0, 0, 0, -1, 0, 0, 0>>,  235>>,
     <<"Q1",       <<1, -3, 1, 1, 0, 90>>,   <<2, -1, 0, 0, 0, 0, 0>>,  75>>,
     <<"nu2",      <<2, -3, 4, -1, 0, 0>>,   <<2, -2, 0, 0, 0, 0, 0>>,  78>>,
     <<"S1",       <<1, 0, 0, 0, 0, 0>>,     <<0, 0, 0, 0, 0, 0, 0>>,   1>>,
     <<"M1-DUTCH", <<1, -1, 1, 1, 0, -90>>,  <<0, -1, 0, 0, 0, 0, -1>>, 206>>,
     <<"lambda2",  <<2, -1, 0, 1, 0, 180>>,  <<2, -2, 0, 0, 0, 0, 0>>,  78>>
  >>

\* Congen::Constituent (name, V, u, tag, firstYear, ...) for row i
BaseOf(i, firstYear, lastYear, epochForSpeed) ==
  Basic(BaseTable[i][1], BaseTable[i][2], BaseTable[i][3], BaseTable[i][4],
        firstYear, lastYear, epochForSpeed)

\* terms[i] = Congen::Constituent (name, V, u, tag, firstYear, ...)
BuildTerm(i, firstYear, lastYear, epochForSpeed) ==
  BaseOf(i, firstYear, lastYear, epochForSpeed)

\* the function statics before the first call
CacheInit ==
  [firstYear_cached |-> 0, lastYear_cached |-> 0, epochForSpeed_cached |-> 0,
   terms |-> [i \in 1..numCompoundBases |-> ConstituentDefault]]

\* (mutant) the speed epoch is left out of the comparison
CacheMiss_NoEpoch(cache, firstYear, lastYear, epochForSpeed) ==
  \/ firstYear # cache.firstYear_cached
  \/ lastYear # cache.lastYear_cached

\* the condition under which the bases are rebuilt
CacheMiss(cache, firstYear, lastYear, epochForSpeed) ==
  \/ firstYear # cache.firstYear_cached
  \/ lastYear # cache.lastYear_cached
  \/ epochForSpeed # cache.epochForSpeed_cached

\* (mutant) the bases are rebuilt but the cached years are not updated
CacheAfter_KeyNotStored(cache, firstYear, lastYear, epochForSpeed) ==
  IF CacheMiss(cache, firstYear, lastYear, epochForSpeed)
  THEN [cache EXCEPT !.terms = [i \in 1..numCompoundBases |->
                     BuildTerm(i, firstYear, lastYear, epochForSpeed)]]
  ELSE cache

\* the statics after the if statement of the Compound constructor
CacheAfter(cache, firstYear, lastYear, epochForSpeed) ==
  IF CacheMiss(cache, firstYear, lastYear, epochForSpeed)
  THEN [firstYear_cached |-> firstYear, lastYear_cached |-> lastYear,
        epochForSpeed_cached |-> epochForSpeed,
        terms |-> [i \in 1..numCompoundBases |->
                     BuildTerm(i, firstYear, lastYear, epochForSpeed)]]
  ELSE cache

CompoundAsserts(coefficients, firstYear, lastYear, epochForSpeed) ==
  /\ YearAsserts(firstYear, lastYear, epochForSpeed)
  /\ Len(coefficients) = numCompoundBases

\* for (i = 0; i < numCompoundBases; ++i) operator+= (coefficients[i] * terms[i])
RECURSIVE Accumulate(_, _, _, _)
Accumulate(this, coefficients, terms, i) ==
  IF i > numCompoundBases THEN this
  ELSE Accumulate(PlusAssign(this, Times(coefficients[i], terms[i])),
                  coefficients, terms, i + 1)

\* (mutant) the name is left as operator+= set it
Compound_Nameless(cache1, name_in, coefficients, firstYear, lastYear, epochForSpeed) ==
  Accumulate(resize(ConstituentDefault, lastYear - firstYear + 1),
             coefficients, cache1.terms, 1)

\* Constituent (name, coefficients, ...): the constructed object given the
\* statics as the if statement left them
Compound(cache1, name_in, coefficients, firstYear, lastYear, epochForSpeed) ==
  LET zero == resize(ConstituentDefault, lastYear - firstYear + 1)
      sum == Accumulate(zero, coefficients, cache1.terms, 1)
  IN  [sum EXCEPT !.name = name_in]

\* ------------------------------------------------------------------ streams
\* A line of the catalog is a sequence of whitespace-separated tokens, and tw
\* tells whether whitespace follows the last token (or, with no token,
\* whether the line holds whitespace only).  No line starts with whitespace.
\* A token is a word, a word that starts with '#', or a decimal integer
\* literal v immediately followed by the (possibly empty) text s.
Word(s) == [k |-> "word", s |-> s, v |-> 0]

Hash(s) == [k |-> "hash", s |-> s, v |-> 0]

Num(v) == [k |-> "num", s |-> "", v |-> v]

NumSfx(v, s) == [k |-> "num", s |-> s, v |-> v]

Line(toks, tw) == [toks |-> toks, tw |-> tw]

\* the characters of a token
TokText(tok) == IF tok.k = "num" THEN ToString(tok.v) \o tok.s ELSE tok.s

\* (mutant) the test for 'R' is left out
ContainsR_Never(tok) == FALSE

\* tempr.find ('R') != npos, for the texts tokens are made of
ContainsR(tok) == tok.s = "R"

\* std::getline (is, buf) on the catalog stream.  The stream is the lines, nl
\* (a newline ends the last line), pos (the next line) and the state bits.
getline(is) ==
  IF is.eof \/ is.fail
  THEN [is |-> [is EXCEPT !.fail = TRUE], buf |-> Line(<< >>, FALSE)]
  ELSE IF is.pos > Len(is.lines)
  THEN [is |-> [is EXCEPT !.eof = TRUE, !.fail = TRUE], buf |-> Line(<< >>, FALSE)]
  ELSE [is |-> [is EXCEPT !.pos = @ + 1,
                          !.eof = (is.pos = Len(is.lines) /\ ~is.nl)],
        buf |-> is.lines[is.pos]]

\* std::istringstream iss (buf)
issOpen(buf) == [toks |-> buf.toks, tw |-> buf.tw, eof |-> FALSE, fail |-> FALSE]

\* (mutant) iss.str (buf) without iss.clear(): the state bits stay set
issRefill_NoClear(iss, buf) == [issOpen(buf) EXCEPT !.eof = iss.eof, !.fail = iss.fail]

\* iss.clear(); iss.str (buf)
issRefill(iss, buf) == issOpen(buf)

issGood(iss) == ~iss.eof /\ ~iss.fail

\* the stream after a whole token was taken: eofbit if the text ended there
issTake(iss) ==
  [iss EXCEPT !.toks = Tail(@), !.eof = (Len(iss.toks) = 1 /\ ~iss.tw)]

\* iss >> std::string
ExtractString(iss) ==
  IF ~issGood(iss)
  THEN [iss |-> [iss EXCEPT !.fail = TRUE], tok |-> Word("")]
  ELSE IF iss.toks = << >>
  THEN [iss |-> [iss EXCEPT !.eof = TRUE, !.fail = TRUE], tok |-> Word("")]
  ELSE [iss |-> issTake(iss), tok |-> Head(iss.toks)]

\* iss >> double, iss >> unsigned, iss >> (satellite field): the digits of a
\* literal are taken and the text after them stays in the stream
ExtractNum(iss) ==
  IF ~issGood(iss)
  THEN [iss |-> [iss EXCEPT !.fail = TRUE], val |-> 0]
  ELSE IF iss.toks = << >>
  THEN [iss |-> [iss EXCEPT !.eof = TRUE, !.fail = TRUE], val |-> 0]
  ELSE IF Head(iss.toks).k # "num"
  THEN [iss |-> [iss EXCEPT !.fail = TRUE], val |-> 0]
  ELSE IF Head(iss.toks).s = ""
  THEN [iss |-> issTake(iss), val |-> Head(iss.toks).v]
  ELSE [iss |-> [iss EXCEPT !.toks = << Word(Head(iss.toks).s) >> \o Tail(@)],
        val |-> Head(iss.toks).v]

\* for (i...) { iss >> x[i]; if (!iss.good()) return lineno; }
RECURSIVE ExtractNumsGood(_, _, _)
ExtractNumsGood(iss, n, acc) ==
  IF n = 0 THEN [iss |-> iss, vals |-> acc, ok |-> TRUE]
  ELSE LET r == ExtractNum(iss)
       IN  IF ~issGood(r.iss) THEN [iss |-> r.iss, vals |-> acc, ok |-> FALSE]
           ELSE ExtractNumsGood(r.iss, n - 1, Append(acc, r.val))

\* ------------------------------------------------------------------- parser
\* the unsigned f_formula passed for the uint_fast8_t parameter
Uint8(x) == x % 256

Satellite(dp, dN, dp1, alpha, r) ==
  [dp |-> dp, dN |-> dN, dp1 |-> dp1, alpha |-> alpha, r |-> r]

\* (mutant) alpha is stored as read
StoredSatellite_AlphaRaw(dp, dN, dp1, alpha, r) == Satellite(dp, -dN, dp1, alpha, r)

\* what is stored for a block that is kept
StoredSatellite(dp, dN, dp1, alpha, r) == Satellite(dp, -dN, dp1, alpha * 360, r)

\* for (unsigned i(0); i<numsats; ) { ... } of the Doodson branch.
\* ok = FALSE stands for "return lineno".
RECURSIVE SatelliteLoop(_, _, _, _, _, _)
SatelliteLoop(i, numsats, iss, is, lineno, satellites) ==
  IF ~(i < numsats)
  THEN [ok |-> TRUE, lineno |-> lineno, is |-> is, satellites |-> satellites]
  ELSE
    LET g == getline(is)
        lineno1 == IF iss.eof THEN lineno + 1 ELSE lineno
        is1 == IF iss.eof THEN g.is ELSE is
        iss1 == IF iss.eof THEN issRefill(iss, g.buf) ELSE iss
        bad == [ok |-> FALSE, lineno |-> lineno1, is |-> is1,
                satellites |-> satellites]
    IN
    IF iss.eof /\ g.is.fail THEN bad
    ELSE
      LET dp == ExtractNum(iss1)
      IN
      IF dp.iss.fail
      THEN IF dp.iss.eof
           THEN SatelliteLoop(i, numsats, dp.iss, is1, lineno1, satellites)
           ELSE bad
      ELSE
        LET dN == ExtractNum(dp.iss)
            dp1 == ExtractNum(dN.iss)
            alpha == ExtractNum(dp1.iss)
            tempr == ExtractString(alpha.iss)
            r == ExtractNum(issOpen(Line(<< tempr.tok >>, FALSE)))
        IN
        IF ~issGood(dN.iss) THEN bad
        ELSE IF ~issGood(dp1.iss) THEN bad
        ELSE IF ~issGood(alpha.iss) THEN bad
        ELSE IF tempr.iss.fail THEN bad
        ELSE IF r.iss.fail THEN bad
        ELSE IF ContainsR(tempr.tok)
        THEN SatelliteLoop(i + 1, numsats, tempr.iss, is1, lineno1, satellites)
        ELSE SatelliteLoop(i + 1, numsats, tempr.iss, is1, lineno1,
               Append(satellites,
                      StoredSatellite(dp.val, dN.val, dp1.val, alpha.val, r.val)))

\* for (i...) { iss >> coefficients[i]; if (iss.fail()) { coefficients[i] = 0; break; } }
RECURSIVE CompoundCoefficients(_, _, _)
CompoundCoefficients(iss, i, coefficients) ==
  IF i > numCompoundBases THEN coefficients
  ELSE LET r == ExtractNum(iss)
       IN  IF r.iss.fail THEN [coefficients EXCEPT ![i] = 0]
           ELSE CompoundCoefficients(r.iss, i + 1, [coefficients EXCEPT ![i] = r.val])

\* the outcomes of parseLegacyInput: a return value, or an assertion that
\* failed in a constructor (the process aborts)
Returned(ret, st) ==
  [ret |-> ret, aborted |-> FALSE, constituents |-> st.constituents,
   cache |-> st.cache, lineno |-> st.lineno]

Aborted(st) ==
  [ret |-> 0, aborted |-> TRUE, constituents |-> st.constituents,
   cache |-> st.cache, lineno |-> st.lineno]

\* while (is.good()) { ... } return 0;
\* st: the stream is, lineno, the constituents vector and the Compound statics
RECURSIVE ParseLoop(_, _, _, _)
ParseLoop(st, firstYear, lastYear, epochForSpeed) ==
  IF st.is.eof \/ st.is.fail THEN Returned(0, st)
  ELSE
    LET g == getline(st.is)
        st1 == [st EXCEPT !.is = g.is, !.lineno = @ + 1]
        buf == g.buf
    IN
    IF g.is.fail THEN Returned(0, st1)
    ELSE IF buf.toks = << >> /\ ~buf.tw
    THEN ParseLoop(st1, firstYear, lastYear, epochForSpeed)
    ELSE IF buf.toks # << >> /\ Head(buf.toks).k = "hash"
    THEN ParseLoop(st1, firstYear, lastYear, epochForSpeed)
    ELSE
      LET name == ExtractString(issOpen(buf))
          kind == ExtractString(name.iss)
          V == ExtractNumsGood(kind.iss, numVterms, << >>)
      IN
      IF ~issGood(kind.iss) THEN Returned(st1.lineno, st1)
      ELSE IF TokText(kind.tok) = "Basic"
      THEN
        LET u == ExtractNumsGood(V.iss, 6, << >>)
            tag == ExtractNum(u.iss)
        IN
        IF ~V.ok THEN Returned(st1.lineno, st1)
        ELSE IF ~u.ok THEN Returned(st1.lineno, st1)
        ELSE IF tag.iss.fail THEN Returned(st1.lineno, st1)
        ELSE IF ~BasicAsserts(V.vals, Append(u.vals, 0), Uint8(tag.val),
                              firstYear, lastYear, epochForSpeed)
        THEN Aborted(st1)
        ELSE ParseLoop(
               [st1 EXCEPT !.constituents =
                  Append(@, Basic(TokText(name.tok), V.vals, Append(u.vals, 0),
                                  Uint8(tag.val), firstYear, lastYear,
                                  epochForSpeed))],
               firstYear, lastYear, epochForSpeed)
      ELSE IF TokText(kind.tok) = "Doodson"
      THEN
        LET numsats == ExtractNum(V.iss)
            sl == SatelliteLoop(0, numsats.val, numsats.iss, st1.is,
                                st1.lineno, << >>)
            st2 == [st1 EXCEPT !.is = sl.is, !.lineno = sl.lineno]
        IN
        IF ~V.ok THEN Returned(st1.lineno, st1)
        ELSE IF numsats.iss.fail THEN Returned(st1.lineno, st1)
        ELSE IF ~sl.ok THEN Returned(st2.lineno, st2)
        ELSE IF ~DoodsonAsserts(V.vals, firstYear, lastYear, epochForSpeed)
        THEN Aborted(st2)
        ELSE ParseLoop(
               [st2 EXCEPT !.constituents =
                  Append(@, Doodson(TokText(name.tok), V.vals, sl.satellites,
                                    firstYear, lastYear, epochForSpeed))],
               firstYear, lastYear, epochForSpeed)
      ELSE IF TokText(kind.tok) = "Compound"
      THEN
        LET coefficients ==
              CompoundCoefficients(kind.iss, 1, Fill(numCompoundBases, 0))
            cache1 == CacheAfter(st1.cache, firstYear, lastYear, epochForSpeed)
        IN
        IF ~CompoundAsserts(coefficients, firstYear, lastYear, epochForSpeed)
        THEN Aborted(st1)
        ELSE ParseLoop(
               [st1 EXCEPT !.cache = cache1,
                           !.constituents =
                  Append(@, Compound(cache1, TokText(name.tok), coefficients,
                                     firstYear, lastYear, epochForSpeed))],
               firstYear, lastYear, epochForSpeed)
      ELSE Returned(st1.lineno, st1)

\* the catalog stream as the caller hands it over: entry is its state then,
\* "good", "eof" (eofbit set) or "fail" (failbit set)
Stream(lines, nl, entry) ==
  [lines |-> lines, nl |-> nl, pos |-> 1, eof |-> (entry = "eof"),
   fail |-> (entry = "fail")]

\* (mutant) the test of the stream on entry is left out
parseLegacyInput_NoDOA(is, firstYear, lastYear, epochForSpeed, constituents, statics) ==
  ParseLoop([is |-> is, lineno |-> 0, constituents |-> constituents,
             cache |-> statics], firstYear, lastYear, epochForSpeed)

\* unsigned parseLegacyInput (is, firstYear, lastYear, epochForSpeed, constituents)
parseLegacyInput(is, firstYear, lastYear, epochForSpeed, constituents, statics) ==
  LET st == [is |-> is, lineno |-> 0, constituents |-> constituents,
             cache |-> statics]
  IN  IF is.eof \/ is.fail THEN Returned(1, st)
      ELSE ParseLoop(st, firstYear, lastYear, epochForSpeed)

\* -------------------------------------------------------------------- state
\* cache:  the statics of the Compound constructor
\* called: a Compound construction has taken place in this process
\* a:      the Constituent the last constructor call produced
\* b:      a second Constituent, the target of the algebra operations
\* call:   the arguments of the last constructor call and what it did
\* steps:  the number of algebra operations applied since the last call
\* pc:     "idle", "built", "aborted" for the constructor client;
\*         "ready", "returned", "aborted" for the parser client
\* input:  the catalog stream, the year arguments and the vector given to the
\*         parser, and shape, the way the text of the catalog was laid out
\* out:    the outcome of parseLegacyInput
VARIABLES cache, called, a, b, call, steps, pc, input, out

vars == << cache, called, a, b, call, steps, pc, input, out >>

Years == BaseYear .. (BaseYear + YearSpan)

\* valid (firstYear, lastYear, epochForSpeed)
Triples ==
  {t \in Years \X Years \X {BaseYear, BaseYear + YearSpan} : t[1] <= t[2]}

Coefs == (-MaxCoef) .. MaxCoef

\* coefficient vectors x e_i + y e_(i+1)
CoefVector(i, x, y) ==
  [k \in 1..numCompoundBases |-> IF k = i THEN x ELSE IF k = i + 1 THEN y ELSE 0]

\* satellite lists given to the Doodson constructor
SatLists ==
  { << >>,
    << Satellite(0, 1, 0, 180, 1) >>,
    << Satellite(0, 1, 0, 180, 1), Satellite(1, 0, -1, 90, 2) >>,
    << Satellite(0, 0, 0, 0, -1) >> }

NoCall ==
  [kind |-> "none", firstYear |-> 0, lastYear |-> 0, epochForSpeed |-> 0,
   coefficients |-> << >>, rebuilt |-> FALSE, first |-> FALSE,
   prev |-> << 0, 0, 0 >>]

NoShape == [form |-> "none"]

NoInput ==
  [is |-> Stream(<< >>, FALSE, "good"), firstYear |-> 0, lastYear |-> 0,
   epochForSpeed |-> 0, constituents |-> << >>, shape |-> NoShape]

NoOut ==
  [ret |-> 0, aborted |-> FALSE, constituents |-> << >>, cache |-> CacheInit,
   lineno |-> 0]

CachedTriple(c) ==
  << c.firstYear_cached, c.lastYear_cached, c.epochForSpeed_cached >>

Init ==
  /\ cache = CacheInit
  /\ called = FALSE
  /\ a = ConstituentDefault
  /\ b = ConstituentDefault
  /\ call = NoCall
  /\ steps = 0
  /\ pc = "idle"
  /\ input = NoInput
  /\ out = NoOut

\* rows of the base table whose V, u and tag serve as sample arguments of
\* Basic and Doodson: O1, P1 (u = 0, tag 1), M2 and M1-DUTCH (Qu term)
SampleRows == {1, 3, 4, 12}

\* the triples with firstYear and epochForSpeed held at BaseYear
FewTriples == {t \in Triples : t[1] = BaseYear /\ t[3] = BaseYear}

\* a Basic construction with a row of the base table as arguments
CallBasicWith(triples) ==
  /\ pc = "idle"
  /\ \E i \in SampleRows, t \in triples :
       /\ BasicAsserts(BaseTable[i][2], BaseTable[i][3], BaseTable[i][4],
                       t[1], t[2], t[3])
       /\ a' = BuildTerm(i, t[1], t[2], t[3])
       /\ call' = [NoCall EXCEPT !.kind = "Basic", !.firstYear = t[1],
                                 !.lastYear = t[2], !.epochForSpeed = t[3],
                                 !.prev = CachedTriple(cache)]
  /\ pc' = "built"
  /\ UNCHANGED << cache, called, b, steps, input, out >>

CallDoodsonWith(triples) ==
  /\ pc = "idle"
  /\ \E i \in {4}, sats \in SatLists, t \in triples :
       /\ DoodsonAsserts(BaseTable[i][2], t[1], t[2], t[3])
       /\ a' = Doodson(BaseTable[i][1], BaseTable[i][2], sats, t[1], t[2], t[3])
       /\ call' = [NoCall EXCEPT !.kind = "Doodson", !.firstYear = t[1],
                                 !.lastYear = t[2], !.epochForSpeed = t[3],
                                 !.prev = CachedTriple(cache)]
  /\ pc' = "built"
  /\ UNCHANGED << cache, called, b, steps, input, out >>

CallCompoundWith(rows, triples) ==
  /\ pc = "idle"
  /\ \E i \in rows, x \in Coefs, y \in Coefs, t \in triples :
       LET c == CoefVector(i, x, y)
           cache1 == CacheAfter(cache, t[1], t[2], t[3])
       IN  /\ CompoundAsserts(c, t[1], t[2], t[3])
           /\ cache' = cache1
           /\ a' = Compound(cache1, "X", c, t[1], t[2], t[3])
           /\ call' = [kind |-> "Compound", firstYear |-> t[1],
                       lastYear |-> t[2], epochForSpeed |-> t[3],
                       coefficients |-> c,
                       rebuilt |-> CacheMiss(cache, t[1], t[2], t[3]),
                       first |-> ~called,
                       prev |-> CachedTriple(cache)]
  /\ called' = TRUE
  /\ pc' = "built"
  /\ UNCHANGED << b, steps, input, out >>

\* the caller is done with the objects
Release ==
  /\ pc = "built"
  /\ pc' = "idle"
  /\ a' = ConstituentDefault
  /\ b' = ConstituentDefault
  /\ call' = NoCall
  /\ steps' = 0
  /\ UNCHANGED << cache, called, input, out >>

CanStep == pc = "built" /\ steps < MaxSteps

\* b = a, and Constituent b (a)
OpAssign ==
  /\ CanStep
  /\ b' = ConstituentCopy(a)
  /\ steps' = steps + 1
  /\ UNCHANGED << cache, called, a, call, pc, input, out >>

OpResize ==
  /\ CanStep
  /\ \E n \in 0 .. (YearSpan + 1) : b' = resize(b, n)
  /\ steps' = steps + 1
  /\ UNCHANGED << cache, called, a, call, pc, input, out >>

\* b += a; the assertion aborts the process when the lengths differ
OpPlusAssign ==
  /\ CanStep
  /\ IF PlusAssignAsserts(b, a)
     THEN b' = PlusAssign(b, a) /\ pc' = pc
     ELSE b' = b /\ pc' = "aborted"
  /\ steps' = steps + 1
  /\ UNCHANGED << cache, called, a, call, input, out >>

OpTimesAssign ==
  /\ CanStep
  /\ \E x \in Coefs : b' = TimesAssign(b, x)
  /\ steps' = steps + 1
  /\ UNCHANGED << cache, called, a, call, pc, input, out >>

\* b = b + a
OpPlus ==
  /\ CanStep
  /\ IF PlusAssignAsserts(b, a)
     THEN b' = ConstituentCopy(Plus(b, a)) /\ pc' = pc
     ELSE b' = b /\ pc' = "aborted"
  /\ steps' = steps + 1
  /\ UNCHANGED << cache, called, a, call, input, out >>

\* b = x * a, b = a * x
OpTimes ==
  /\ CanStep
  /\ \E x \in Coefs : b' = ConstituentCopy(Times(x, a))
  /\ steps' = steps + 1
  /\ UNCHANGED << cache, called, a, call, pc, input, out >>

CallBasic == CallBasicWith(Triples)

CallDoodson == CallDoodsonWith(Triples)

CallCompound == CallCompoundWith({1}, Triples)

\* constructor calls over every triple of the model, Compound with the
\* coefficient vectors x O1 + y K1
Next ==
  \/ CallBasic
  \/ CallDoodson
  \/ CallCompound
  \/ Release

Spec == Init /\ [][Next]_vars

ConstructFew ==
  \/ CallBasicWith(FewTriples)
  \/ CallDoodsonWith(FewTriples)
  \/ CallCompoundWith({1}, FewTriples)

CallCompoundAll == CallCompoundWith(1..numCompoundBases, FewTriples)

\* Compound constructions over the coefficient vectors x e_i + y e_(i+1)
NextCoef ==
  \/ CallCompoundAll
  \/ Release

SpecCoef == Init /\ [][NextCoef]_vars

\* constructor calls over few arguments, followed by algebra operations
NextAlgebra ==
  \/ ConstructFew
  \/ Release
  \/ OpAssign
  \/ OpResize
  \/ OpPlusAssign
  \/ OpTimesAssign
  \/ OpPlus
  \/ OpTimes

SpecAlgebra == Init /\ [][NextAlgebra]_vars

\* ----------------------------------------------------------- catalog inputs
\* the years the parser is called with
ParseTriple == << BaseYear, BaseYear + YearSpan, BaseYear >>

Nums(s) == [i \in 1..Len(s) |-> Num(s[i])]

EmptyLine == Line(<< >>, FALSE)

CommentLine == Line(<< Hash("#"), Word("comment") >>, FALSE)

\* "name Basic V u tag" with the name, V and u of row i of the base table
BasicLine(i, tag) ==
  Line(<< Word(BaseTable[i][1]), Word("Basic") >> \o Nums(BaseTable[i][2])
         \o Nums(SubSeq(BaseTable[i][3], 1, 6)) \o << Num(tag) >>, FALSE)

\* "name Compound c1 ... ck" followed by the tokens term
CompoundLine(name, coefs, term, tw) ==
  Line(<< Word(name), Word("Compound") >> \o Nums(coefs) \o term, tw)

\* "M2 Doodson V N"
DoodsonHeader(N) ==
  << Word("M2"), Word("Doodson") >> \o Nums(BaseTable[4][2]) \o << Num(N) >>

\* a satellite block: dp dN dp1 alpha r-token
Block(dp, dN, dp1, alpha, rtok) == Nums(<< dp, dN, dp1, alpha >>) \o << rtok >>

\* the file has a last line without newline only if that line is not empty
Canonical(lines, nl) ==
  IF lines = << >> THEN ~nl ELSE nl \/ lines[Len(lines)] # EmptyLine

CatalogInput(lines, nl, entry, pre, shape) ==
  [is |-> Stream(lines, nl, entry), firstYear |-> ParseTriple[1],
   lastYear |-> ParseTriple[2], epochForSpeed |-> ParseTriple[3],
   constituents |-> pre, shape |-> shape]

\* the lines catalogs are made of: an empty line, a comment, a Basic record,
\* a Basic record with an unknown tag, two Compound records (one without
\* coefficients), a Doodson record that announces one satellite, a satellite
\* block, and a record of an unknown kind
CatalogLines ==
  { EmptyLine,
    CommentLine,
    BasicLine(1, 75),
    BasicLine(3, 99),
    CompoundLine("MK3", << 0, 1, 0, 1 >>, << >>, FALSE),
    CompoundLine("Z0", << >>, << >>, FALSE),
    Line(DoodsonHeader(1), FALSE),
    Line(Block(0, -1, 0, 1, Num(5)), FALSE),
    Line(<< Word("X"), Word("Other"), Num(1) >>, FALSE) }

LineSeqs(n) == UNION {[1..k -> CatalogLines] : k \in 0..n}

\* catalogs of up to MaxLines lines on a good stream; catalogs of at most one
\* line on a stream in any state, with an empty or a non-empty vector
ParseInputs ==
  {CatalogInput(x[1], x[2], "good", << >>, [form |-> "lines"]) :
     x \in {y \in LineSeqs(MaxLines) \X BOOLEAN : Canonical(y[1], y[2])}}
  \cup
  {CatalogInput(x[1], x[2], x[3], x[4], [form |-> "lines"]) :
     x \in {y \in LineSeqs(1) \X BOOLEAN \X {"good", "eof", "fail"}
                   \X {<< >>, << ConstituentDefault >>} :
              Canonical(y[1], y[2])}}

\* the k coefficients of the Compound records: x, -x, 0, x, -x, 0, ...
CoefPattern(j, x) == x * (((j + 1) % 3) - 1)

TermToks(term) ==
  CASE term = "none" -> << >>
    [] term = "word" -> << Word("x") >>
    [] term = "comment" -> << Hash("#c") >>

\* one Compound record: k coefficients, then nothing, a word or a comment,
\* with or without whitespace at the end of the line and a final newline
CompoundShapes ==
  [form : {"compound"}, k : 0..(numCompoundBases + 1), x : 1..MaxCoef,
   term : {"none", "word", "comment"}, tw : BOOLEAN, nl : BOOLEAN]

CompoundRecLines(s) ==
  << CompoundLine("X", [j \in 1..s.k |-> CoefPattern(j, s.x)],
                  TermToks(s.term), s.tw) >>

CompoundRecInputs ==
  {CatalogInput(CompoundRecLines(s), s.nl, "good", << >>, s) : s \in CompoundShapes}

BlockSet ==
  { Block(0, -1, 0, 1, Num(5)),
    Block(1, 0, -1, 0, Num(3)),
    Block(0, -1, 0, 1, NumSfx(5, "R")) }

\* one Doodson record that announces N satellites and holds the blocks
\* blocks (fewer than N: the input ends early); brk[i]: a line break
\* precedes block i; tw: whitespace ends every line; follow: a Basic record
\* follows
DoodsonShapes ==
  UNION { [form : {"doodson"}, N : {p[1]}, blocks : [1..p[2] -> BlockSet],
           brk : [1..p[2] -> BOOLEAN], tw : BOOLEAN, nl : BOOLEAN,
           follow : BOOLEAN] :
          p \in {q \in (0..MaxSats) \X (0..MaxSats) : q[2] <= q[1]} }

RECURSIVE LayOut(_, _, _)
LayOut(cur, i, s) ==
  IF i > Len(s.blocks) THEN << Line(cur, s.tw) >>
  ELSE IF s.brk[i] THEN << Line(cur, s.tw) >> \o LayOut(s.blocks[i], i + 1, s)
  ELSE LayOut(cur \o s.blocks[i], i + 1, s)

DoodsonRecLines(s) ==
  LayOut(DoodsonHeader(s.N), 1, s)
    \o (IF s.follow THEN << BasicLine(1, 75) >> ELSE << >>)

DoodsonRecInputs ==
  {CatalogInput(DoodsonRecLines(s), s.nl, "good", << >>, s) : s \in DoodsonShapes}

InitWith(inputs) ==
  /\ cache = CacheInit
  /\ called = FALSE
  /\ a = ConstituentDefault
  /\ b = ConstituentDefault
  /\ call = NoCall
  /\ steps = 0
  /\ pc = "ready"
  /\ input \in inputs
  /\ out = NoOut

\* the driver calls parseLegacyInput on the catalog
ParseCall ==
  /\ pc = "ready"
  /\ LET r == parseLegacyInput(input.is, input.firstYear, input.lastYear,
                               input.epochForSpeed, input.constituents, cache)
     IN  /\ out' = r
         /\ cache' = r.cache
         /\ called' = (called \/ r.cache # cache)
         /\ pc' = IF r.aborted THEN "aborted" ELSE "returned"
  /\ UNCHANGED << a, b, call, steps, input >>

NextParse == ParseCall

InitParse == InitWith(ParseInputs)

SpecParse == InitParse /\ [][NextParse]_vars

InitCompoundRec == InitWith(CompoundRecInputs)

SpecCompoundRec == InitCompoundRec /\ [][NextParse]_vars

InitDoodsonRec == InitWith(DoodsonRecInputs)

SpecDoodsonRec == InitDoodsonRec /\ [][NextParse]_vars

\* ------------------------------------------------------------------- claims
CallTriple == << call.firstYear, call.lastYear, call.epochForSpeed >>

\* the statics of a process whose first Compound call has the triple t
FreshCache(t) == CacheAfter(CacheInit, t[1], t[2], t[3])

\* C3: after any sequence of Compound constructions each result equals the
\* one obtained from bases built afresh for the call's own triple; whenever
\* the cache is filled its bases are the Basic constituents of the table for
\* the cached triple, of length lastYear - firstYear + 1 (so accumulation has
\* not changed them).
C3_CacheIsOptimization ==
  /\ call.kind = "Compound" =>
       a = Compound(FreshCache(CallTriple), "X", call.coefficients,
                    call.firstYear, call.lastYear, call.epochForSpeed)
  /\ cache # CacheInit =>
       \A i \in 1..numCompoundBases :
         /\ cache.terms[i] = BaseOf(i, cache.firstYear_cached,
                                    cache.lastYear_cached,
                                    cache.epochForSpeed_cached)
         /\ Len(cache.terms[i].Vpu)
              = cache.lastYear_cached - cache.firstYear_cached + 1
         /\ Len(cache.terms[i].f)
              = cache.lastYear_cached - cache.firstYear_cached + 1

\* a Compound call that reused the cache a previous call filled
C3_Witness ==
  /\ call.kind = "Compound"
  /\ ~call.rebuilt
  /\ call.coefficients[1] # 0
  /\ call.coefficients[2] # 0

\* C4: a Compound call rebuilds the bases exactly when it is the first
\* Compound call of the process or its triple differs from the cached one;
\* after the call the cached triple is the call's triple.
C4_RebuildExactlyOnMiss ==
  call.kind = "Compound" =>
    /\ call.rebuilt <=> (call.first \/ call.prev # CallTriple)
    /\ CachedTriple(cache) = CallTriple

\* a later Compound call with another triple than the cached one
C4_Witness ==
  /\ call.kind = "Compound"
  /\ ~call.first
  /\ call.rebuilt
  /\ call.prev[1] = call.firstYear
  /\ call.prev[2] = call.lastYear
  /\ call.prev[3] # call.epochForSpeed

\* C5: a constructed Constituent has |Vpu| = |f| = lastYear - firstYear + 1,
\* and |Vpu| = |f| holds of every Constituent after copy, assignment, resize,
\* +=, *=, scalar * and +.
C5_SeriesLengths ==
  /\ Len(a.Vpu) = Len(a.f)
  /\ Len(b.Vpu) = Len(b.f)
  /\ call.kind # "none" =>
       /\ Len(a.Vpu) = call.lastYear - call.firstYear + 1
       /\ Len(a.f) = call.lastYear - call.firstYear + 1

\* two operations after a construction left a non-empty Constituent in b
C5_Witness ==
  /\ pc = "built"
  /\ steps = 2
  /\ b.name = "nameless"
  /\ Len(b.Vpu) = 2

\* C6: Compound(c) has speed = sum_i c[i] base_i.speed,
\* Vpu[y] = sum_i c[i] base_i.Vpu[y] and f[y] = prod_i base_i.f[y]^|c[i]|
\* (here: log f[y] = sum_i |c[i]| log base_i.f[y]), base_i being the Basic
\* constituent of row i for the same triple; a unit vector e_i gives base_i.
C6_CompoundIsLinearCombination ==
  call.kind = "Compound" =>
    LET c == call.coefficients
        n == call.lastYear - call.firstYear + 1
        base == [i \in 1..numCompoundBases |->
                   BaseOf(i, call.firstYear, call.lastYear, call.epochForSpeed)]
        absc == [i \in 1..numCompoundBases |-> fabs(c[i])]
    IN  /\ a.speed = Dot(c, [i \in 1..numCompoundBases |-> base[i].speed])
        /\ Len(a.Vpu) = n /\ Len(a.f) = n
        /\ \A y \in 1..n :
             /\ a.Vpu[y] = Dot(c, [i \in 1..numCompoundBases |-> base[i].Vpu[y]])
             /\ a.f[y] = Dot(absc, [i \in 1..numCompoundBases |-> base[i].f[y]])
        /\ \A i \in 1..numCompoundBases :
             c = CoefVector(i, 1, 0) =>
               /\ a.speed = base[i].speed
               /\ a.Vpu = base[i].Vpu
               /\ a.f = base[i].f

\* a compound of two bases, one of them with a negative coefficient
C6_Witness ==
  /\ call.kind = "Compound"
  /\ \E i \in 1..(numCompoundBases - 1) :
       call.coefficients[i] = 1 /\ call.coefficients[i + 1] = -1

\* ------------------------------------------------------ claims on the parser
\* the parser has been called on the catalog in input
Parsed == pc # "ready"

EntryGood == ~input.is.eof /\ ~input.is.fail

\* parseLegacyInput on a good stream holding the lines, called in a process
\* that has built no Compound yet
ParseOf(lines, nl) ==
  parseLegacyInput(Stream(lines, nl, "good"), input.firstYear, input.lastYear,
                   input.epochForSpeed, input.constituents, CacheInit)

\* a line that is empty or has '#' as its first character
Ignored(line) ==
  line = EmptyLine \/ (line.toks # << >> /\ Head(line.toks).k = "hash")

\* C10: on a stream that is not good on entry the parser returns 1 and
\* appends nothing; on a good stream without any line it returns 0 and
\* appends nothing.
C10_StreamStateOnEntry ==
  Parsed =>
    /\ ~EntryGood =>
         /\ out.ret = 1
         /\ ~out.aborted
         /\ out.constituents = input.constituents
    /\ (EntryGood /\ input.is.lines = << >>) =>
         /\ out.ret = 0
         /\ ~out.aborted
         /\ out.constituents = input.constituents

\* a stream with failbit set that holds a well-formed Basic record, and a
\* vector that already holds a constituent
C10_Witness ==
  /\ pc = "returned"
  /\ input.is.fail
  /\ input.is.lines = << BasicLine(1, 75) >>
  /\ input.constituents # << >>
  /\ out.ret = 1

\* the record of a Compound shape with its coefficients padded with zeros
PaddedCompoundLines(s) ==
  << CompoundLine("X", [j \in 1..numCompoundBases |->
                          IF j <= s.k THEN CoefPattern(j, s.x) ELSE 0],
                  TermToks(s.term), s.tw) >>

\* C2: for every k in 0..12 a Compound record with k coefficients, ended by
\* the end of the line or by a non-numeric token, is accepted and yields the
\* constituent of the record padded with zeros to 13 coefficients.
C2_CompoundPrefixAccepted ==
  (Parsed /\ input.shape.form = "compound" /\ input.shape.k <= 12) =>
    /\ out.ret = 0
    /\ ~out.aborted
    /\ Len(out.constituents) = 1
    /\ out.constituents
         = ParseOf(PaddedCompoundLines(input.shape), input.shape.nl).constituents

\* the satellites the constructor is given for the blocks: those without R,
\* with dN negated and alpha in degrees
RECURSIVE KeptSatellites(_)
KeptSatellites(blocks) ==
  IF blocks = << >> THEN << >>
  ELSE LET t == Head(blocks)
       IN  (IF t[5].s = "R" THEN << >>
            ELSE << [dp |-> t[1].v, dN |-> -t[2].v, dp1 |-> t[3].v,
                     alpha |-> 360 * t[4].v, r |-> t[5].v] >>)
           \o KeptSatellites(Tail(blocks))

\* the Doodson shape written on one line
OnOneLine(s) == [s EXCEPT !.brk = [i \in DOMAIN s.brk |-> FALSE]]

\* C8: a Doodson record whose N blocks lie on several lines is accepted, the
\* parser resumes with the line after the last block, and the constituent
\* has the satellites of the record written on one line; when the input ends
\* before N blocks are read the parser returns a nonzero number and appends
\* nothing.
C8_SatellitesAcrossLines ==
  (Parsed /\ input.shape.form = "doodson") =>
    LET s == input.shape
        one == ParseOf(DoodsonRecLines(OnOneLine(s)), s.nl)
    IN  /\ Len(s.blocks) = s.N =>
             /\ out.ret = 0
             /\ ~out.aborted
             /\ Len(out.constituents) = (IF s.follow THEN 2 ELSE 1)
             /\ out.constituents = one.constituents
             /\ out.constituents[1]
                  = Doodson("M2", BaseTable[4][2], KeptSatellites(s.blocks),
                            input.firstYear, input.lastYear, input.epochForSpeed)
        /\ (Len(s.blocks) < s.N /\ ~s.follow) =>
             /\ out.ret # 0
             /\ ~out.aborted
             /\ out.constituents = << >>

\* an accepted record of two kept blocks, each on a line of its own
C8_Witness ==
  /\ pc = "returned"
  /\ input.shape.form = "doodson"
  /\ input.shape.N = 2
  /\ Len(input.shape.blocks) = 2
  /\ input.shape.brk = << TRUE, TRUE >>
  /\ input.shape.blocks[1][5].s = ""
  /\ input.shape.blocks[2][5].s = ""
  /\ input.shape.blocks[1] # input.shape.blocks[2]
  /\ out.ret = 0

\* the Doodson shape without block j and with N - 1 announced
WithoutBlock(s, j) ==
  [s EXCEPT !.N = @ - 1,
            !.blocks = SubSeq(@, 1, j - 1) \o SubSeq(@, j + 1, Len(@)),
            !.brk = SubSeq(@, 1, j - 1) \o SubSeq(@, j + 1, Len(@))]

\* C7: when a Doodson record is accepted, each of its blocks whose r-token
\* holds 'R' counts as one of the N blocks, and the constituents are those of
\* the record without that block and with N - 1 announced.
C7_RSatelliteDropped ==
  (pc = "returned" /\ input.shape.form = "doodson" /\ out.ret = 0) =>
    LET s == input.shape
    IN  \A j \in 1..Len(s.blocks) :
          s.blocks[j][5].s = "R" =>
            LET r == ParseOf(DoodsonRecLines(WithoutBlock(s, j)), s.nl)
            IN  /\ Len(s.blocks) = s.N
                /\ r.ret = 0
                /\ r.constituents = out.constituents

\* an accepted record of a kept block and a block with R
C7_Witness ==
  /\ pc = "returned"
  /\ input.shape.form = "doodson"
  /\ out.ret = 0
  /\ Len(input.shape.blocks) = 2
  /\ input.shape.blocks[1][5].s = ""
  /\ input.shape.blocks[2][5].s = "R"

\* the text without line i
DeleteLine(lines, nl, i) ==
  LET rest == SubSeq(lines, 1, i - 1) \o SubSeq(lines, i + 1, Len(lines))
  IN  [lines |-> rest,
       nl |-> IF i = Len(lines) THEN rest # << >> ELSE nl]

\* C9: deleting an empty line or a line that starts with '#' changes
\* neither whether parsing succeeds nor the constituents.
C9_IgnoredLinesCanBeDeleted ==
  (Parsed /\ EntryGood /\ input.shape.form = "lines") =>
    \A i \in 1..Len(input.is.lines) :
      Ignored(input.is.lines[i]) =>
        LET d == DeleteLine(input.is.lines, input.is.nl, i)
            r == ParseOf(d.lines, d.nl)
        IN  /\ r.aborted = out.aborted
            /\ (r.ret = 0) = (out.ret = 0)
            /\ r.constituents = out.constituents

\* The grammar of the catalog as the specification words it.  Empty lines
\* and lines that start with '#' are ignored wherever they stand.  A Basic
\* record is a line "name Basic" with 13 numbers; a Compound record is a line
\* "name Compound" with any number of coefficients; a Doodson record is a
\* line "name Doodson" with 6 numbers and a count N, and N blocks of 4 numbers
\* and an r-token on that line and the lines after it.
PlainNum(tok) == tok.k = "num" /\ tok.s = ""

AllPlain(toks, from, to) ==
  Len(toks) >= to /\ \A j \in from..to : PlainNum(toks[j])

KindOf(line) == IF Len(line.toks) >= 2 THEN TokText(line.toks[2]) ELSE ""

BlockWellFormed(toks) == AllPlain(toks, 1, 4) /\ Len(toks) >= 5 /\ toks[5].k = "num"

\* GrammarScan: the first malformed line from line p on (0: none), and
\* whether it is a Doodson record that the end of the input cuts short.
\* GrammarBlocks: the same within a Doodson record that lacks need blocks,
\* rest being what is left of line p.
RECURSIVE GrammarScan(_, _), GrammarBlocks(_, _, _, _)
GrammarScan(lines, p) ==
  IF p > Len(lines) THEN [line |-> 0, truncated |-> FALSE]
  ELSE IF Ignored(lines[p]) THEN GrammarScan(lines, p + 1)
  ELSE IF KindOf(lines[p]) = "Basic" /\ AllPlain(lines[p].toks, 3, 15)
  THEN GrammarScan(lines, p + 1)
  ELSE IF KindOf(lines[p]) = "Compound" THEN GrammarScan(lines, p + 1)
  ELSE IF KindOf(lines[p]) = "Doodson" /\ AllPlain(lines[p].toks, 3, 9)
  THEN GrammarBlocks(lines, p, SubSeq(lines[p].toks, 10, Len(lines[p].toks)),
                     lines[p].toks[9].v)
  ELSE [line |-> p, truncated |-> FALSE]

GrammarBlocks(lines, p, rest, need) ==
  IF need = 0 THEN GrammarScan(lines, p + 1)
  ELSE IF rest = << >>
  THEN IF p = Len(lines) THEN [line |-> p, truncated |-> TRUE]
       ELSE IF Ignored(lines[p + 1]) THEN GrammarBlocks(lines, p + 1, << >>, need)
       ELSE GrammarBlocks(lines, p + 1, lines[p + 1].toks, need)
  ELSE IF BlockWellFormed(rest)
  THEN GrammarBlocks(lines, p, SubSeq(rest, 6, Len(rest)), need - 1)
  ELSE [line |-> p, truncated |-> FALSE]

\* C1: on a good stream the parser returns 0 if and only if every record is
\* well-formed, and otherwise the number of the first malformed line, every
\* line counting as one.  (A constructor assertion that stops the process is
\* left aside, and for a Doodson record that the end of the input cuts short
\* any number from 1 to one past the last line is taken to conform.)
C1_ReturnsFirstMalformedLine ==
  (pc = "returned" /\ EntryGood /\ input.shape.form = "lines") =>
    LET g == GrammarScan(input.is.lines, 1)
    IN  /\ (out.ret = 0) <=> (g.line = 0)
        /\ (g.line # 0 /\ ~g.truncated) => out.ret = g.line
        /\ g.truncated => out.ret \in 1..(Len(input.is.lines) + 1)

\* ---------------------------------------------------------------- calendar
\* A walk over the years 1 .. 4001 that startYear accepts.  input holds the
\* year and the number of days of the years before it, counted year by year
\* with the proleptic Gregorian rule; out holds what the program computes for
\* the year.
LastStartYear == 4001

Leap(y) == (y % 4 = 0 /\ y % 100 # 0) \/ y % 400 = 0

DaysInYear(y) == IF Leap(y) THEN 366 ELSE 365

InitCalendar ==
  /\ cache = CacheInit
  /\ called = FALSE
  /\ a = ConstituentDefault
  /\ b = ConstituentDefault
  /\ call = NoCall
  /\ steps = 0
  /\ pc = "ready"
  /\ input = [year |-> 1, days |-> 0]
  /\ out = NoOut

\* startYear (year), harmgen's startYear (year) and, up to 4000, midYear (year)
CalendarApply ==
  /\ pc = "ready"
  /\ startYearAsserts(input.year)
  /\ out' = [startYear |-> startYear(input.year),
             harmgen |-> harmgen_startYear(input.year),
             midYear |-> IF midYearAsserts(input.year)
                         THEN midYear(input.year) ELSE 0]
  /\ pc' = "returned"
  /\ UNCHANGED << cache, called, a, b, call, steps, input >>

CalendarNextYear ==
  /\ pc = "returned"
  /\ input.year < LastStartYear
  /\ input' = [year |-> input.year + 1,
               days |-> input.days + DaysInYear(input.year)]
  /\ pc' = "ready"
  /\ UNCHANGED << cache, called, a, b, call, steps, out >>

NextCalendar ==
  \/ CalendarApply
  \/ CalendarNextYear

SpecCalendar == InitCalendar /\ [][NextCalendar]_vars

\* C11: for every year y in 1..4001 startYear(y) is the claimed formula and
\* is one day's length times the number of proleptic-Gregorian days from
\* 1970-01-01 (day 719162 after 0001-01-01) to January 1 of y;
\* startYear(1970) = 0, startYear(2000) =
\* 946684800 s (21914 units of 43200 s) and startYear(1) = -62135596800 s
\* (-1438324 units); harmgen's startYear returns the same value.
C11_StartYearCountsDays ==
  pc = "returned" =>
    LET y == input.year
    IN  /\ out.startYear
             = -1438324 + (y - 1) * 730
               + (((y - 1) \div 4) - ((y - 1) \div 100) + ((y - 1) \div 400)) * 2
        /\ out.startYear = 2 * (input.days - 719162)
        /\ y = 1970 => out.startYear = 0
        /\ y = 2000 => out.startYear = 21914
        /\ y = 1 => out.startYear = -1438324
        /\ out.harmgen = out.startYear

\* the start of 2000 has been computed, after a walk over 1999 years
C11_Witness ==
  /\ pc = "returned"
  /\ input.year = 2000
  /\ input.days = 730119
  /\ out.startYear = 21914

\* C12: for every year y in 1..4000 twice midYear(y) is startYear(y) +
\* startYear(y+1), so the division by 2 loses nothing, and midYear(y) is
\* 182.5 days (365 units of 43200 s) after startYear(y) in a common year and
\* 183 days (366 units) in a leap year.
C12_MidYearExact ==
  (pc = "returned" /\ midYearAsserts(input.year)) =>
    /\ 2 * out.midYear = startYear(input.year) + startYear(input.year + 1)
    /\ out.midYear - out.startYear = (IF Leap(input.year) THEN 366 ELSE 365)

\* a leap year before 1970, whose timestamps are negative
C12_Witness ==
  /\ pc = "returned"
  /\ input.year = 1968
  /\ Leap(input.year)
  /\ out.midYear < 0
  /\ out.midYear - out.startYear = 366

\* ------------------------------------------------------------------- speeds
\* The value of a speed in units of 10^-6 degrees per hour.  A speed is a
\* form over the derivatives of T, s, h, p and p1 at the speed epoch:
\* coeff1 / hoursPerJulianCentury, rounded to the unit (the T^2 and T^3
\* terms change s, h, p and p1 by less than 10^-7 degrees per hour over the
\* years 1 .. 4000).
SpeedRate(k) ==
  CASE k = 0 -> 15000000
    [] k = 1 -> 549017
    [] k = 2 -> 41069
    [] k = 3 -> 4642
    [] k = 4 -> 2

RECURSIVE SpeedSum(_, _)
SpeedSum(speed, atoms) ==
  IF atoms = {} THEN 0
  ELSE LET x == CHOOSE z \in atoms : TRUE
       IN  speed[x] * SpeedRate(x.k) + SpeedSum(speed, atoms \ {x})

SpeedValue(speed) == SpeedSum(speed, DOMAIN speed)

\* 214.748 degrees per hour
SpeedLimit == 214748000

\* assert (c.speed >= 0); assert (c.speed < 214.748); of makeArrays
makeArraysSpeedAsserts(c) ==
  SpeedValue(c.speed) >= 0 /\ SpeedValue(c.speed) < SpeedLimit

\* C13: every Constituent that the Basic, Doodson or Compound constructor
\* produces has 0 <= speed < 214.748, so that the speed assertions of
\* makeArrays hold of it.
C13_ConstructedSpeedInRange ==
  pc = "built" => makeArraysSpeedAsserts(a)

\* ------------------------------------------------------------- node factors
\* the factor is not 0 (the forms of the other factors are logarithms of
\* positive numbers)
FactorPositive(x) == Atom("log", 0, 0) \notin DOMAIN x

\* C14: every constructed Constituent (Basic, Doodson with any satellite
\* list, Compound) has f[i] > 0 for every index i.
C14_NodeFactorsPositive ==
  pc = "built" => \A i \in 1..Len(a.f) : FactorPositive(a.f[i])


\* ------------------------------------------------- Basic with V all zero
\* u-coefficient vectors x e_j + y e_Q
UVectors ==
  {[k \in 1..numuterms |->
      (IF k = j THEN x ELSE 0) + (IF k = Q_index + 1 THEN y ELSE 0)] :
     j \in 1..numuterms, x \in Coefs, y \in Coefs}

ZeroV == [k \in 1..numVterms |-> 0]

\* V-coefficient vectors: all zero, and T alone
VVectors == {ZeroV, [k \in 1..numVterms |-> IF k = T_index + 1 THEN 1 ELSE 0]}

NoBasicArgs == [V_coefficients |-> << >>, u_coefficients |-> << >>, f_formula |-> 0]

InitBasicArgs ==
  /\ cache = CacheInit
  /\ called = FALSE
  /\ a = ConstituentDefault
  /\ b = ConstituentDefault
  /\ call = NoCall
  /\ steps = 0
  /\ pc = "idle"
  /\ input = NoBasicArgs
  /\ out = NoOut

\* Constituent (name, V_coefficients, u_coefficients, f_formula, ...)
CallBasicArgs ==
  /\ pc = "idle"
  /\ \E V \in VVectors, u \in UVectors, tag \in {1, 78}, t \in Triples :
       /\ BasicAsserts(V, u, tag, t[1], t[2], t[3])
       /\ a' = Basic("X", V, u, tag, t[1], t[2], t[3])
       /\ input' = [V_coefficients |-> V, u_coefficients |-> u, f_formula |-> tag]
       /\ call' = [NoCall EXCEPT !.kind = "Basic", !.firstYear = t[1],
                                 !.lastYear = t[2], !.epochForSpeed = t[3]]
  /\ pc' = "built"
  /\ UNCHANGED << cache, called, b, steps, out >>

ReleaseBasicArgs ==
  /\ pc = "built"
  /\ pc' = "idle"
  /\ a' = ConstituentDefault
  /\ call' = NoCall
  /\ input' = NoBasicArgs
  /\ UNCHANGED << cache, called, b, steps, out >>

NextBasicArgs ==
  \/ CallBasicArgs
  \/ ReleaseBasicArgs

SpecBasicArgs == InitBasicArgs /\ [][NextBasicArgs]_vars

\* the constituent was built with V-coefficients (0,0,0,0,0,0) and f-tag 1
BuiltZeroV ==
  pc = "built" /\ input.V_coefficients = ZeroV /\ input.f_formula = 1

AllZeroU == \A k \in 1..numuterms : input.u_coefficients[k] = 0

\* C15 as stated: a Basic constituent built with V-coefficients all zero and
\* f-tag 1 has speed 0 and f[i] = 1 for every year, whatever the
\* u-coefficients; with u-coefficients all zero too, Vpu[i] = 0 for every
\* year.
C15_ZeroVSpeedZero ==
  BuiltZeroV =>
    /\ a.speed = Zero
    /\ \A i \in 1..Len(a.f) : a.f[i] = Zero
    /\ AllZeroU => \A i \in 1..Len(a.Vpu) : a.Vpu[i] = Zero

\* C15 amended: with V-coefficients all zero and f-tag 1 the speed is the
\* Q coefficient of u times the speed of p (0.004642 degrees per hour), hence
\* 0 exactly when the Q coefficient is 0; f[i] = 1 for every year whatever
\* the u-coefficients; with u-coefficients all zero, speed = 0 and
\* Vpu[i] = 0 for every year.
C15_ZeroVSpeedIsM1Term ==
  BuiltZeroV =>
    /\ SpeedValue(a.speed) = input.u_coefficients[Q_index + 1] * SpeedRate(p_index)
    /\ (a.speed = Zero) <=> (input.u_coefficients[Q_index + 1] = 0)
    /\ Len(a.f) = call.lastYear - call.firstYear + 1
    /\ \A i \in 1..Len(a.f) : a.f[i] = Zero
    /\ AllZeroU => a.speed = Zero /\ \A i \in 1..Len(a.Vpu) : a.Vpu[i] = Zero

\* V = 0, tag 1 and a u vector whose only non-zero coefficient is Q's
C15_Witness ==
  /\ BuiltZeroV
  /\ input.u_coefficients[Q_index + 1] = 1
  /\ \A k \in 1..numuterms : k # Q_index + 1 => input.u_coefficients[k] = 0
  /\ SpeedValue(a.speed) = 4642
  /\ Len(a.f) = 2


\* ------------------------------------------------------ node-factor dispatch
\* the values of the uint_fast8_t parameter f_formula
FormulaValues == {Uint8(x) : x \in 0..255}

NoDispatch == [f_formula |-> 0, year |-> 0]

NoValue == [aborted |-> FALSE, value |-> Zero]

InitDispatch ==
  /\ cache = CacheInit
  /\ called = FALSE
  /\ a = ConstituentDefault
  /\ b = ConstituentDefault
  /\ call = NoCall
  /\ steps = 0
  /\ pc = "ready"
  /\ input = NoDispatch
  /\ out = NoValue

\* the caller picks the tag and the year whose I, P and nu are passed
DispatchCall ==
  /\ pc = "ready"
  /\ \E tag \in FormulaValues, y \in Years :
       input' = [f_formula |-> tag, year |-> y]
  /\ pc' = "called"
  /\ UNCHANGED << cache, called, a, b, call, steps, out >>

\* f (f_formula, I, P, nu): a value, or the assertion of the default branch
DispatchApply ==
  /\ pc = "called"
  /\ out' = IF fAsserts(input.f_formula)
            THEN [aborted |-> FALSE, value |-> f(input.f_formula, midYear(input.year))]
            ELSE [aborted |-> TRUE, value |-> Zero]
  /\ pc' = "returned"
  /\ UNCHANGED << cache, called, a, b, call, steps, input >>

DispatchReturn ==
  /\ pc = "returned"
  /\ pc' = "ready"
  /\ input' = NoDispatch
  /\ out' = NoValue
  /\ UNCHANGED << cache, called, a, b, call, steps >>

NextDispatch ==
  \/ DispatchCall
  \/ DispatchApply
  \/ DispatchReturn

SpecDispatch == InitDispatch /\ [][NextDispatch]_vars

\* C16: the dispatch returns a value exactly for the tags 1, 73, 74, 75, 76,
\* 77, 78, 79, 144, 149, 206, 215, 227 and 235, and stops in the assertion
\* for every other tag; for tag 1 the value is 1 (log 0) whatever the
\* arguments, for the other tags it is the factor of that formula.
C16_DispatchExactlyKnownTags ==
  pc = "returned" =>
    /\ out.aborted <=>
         input.f_formula \notin {1, 73, 74, 75, 76, 77, 78, 79, 144, 149, 206, 215, 227, 235}
    /\ input.f_formula = 1 => ~out.aborted /\ out.value = Zero
    /\ ~out.aborted /\ input.f_formula # 1 => out.value # Zero

\* the last case of the switch returned a value
C16_Witness ==
  /\ pc = "returned"
  /\ input.f_formula = 235
  /\ ~out.aborted
  /\ out.value = One(Atom("f", 235, midYear(input.year)))


\* ------------------------------------------------- f tags read from input
\* values of the tag field of a Basic record: three rounds of the
\* uint_fast8_t range
TagFields == 0 .. (3 * 256 - 1)

\* one Basic record (the V and u of O1 or of P1) with each tag field
BasicTagInputs ==
  {CatalogInput(<< BasicLine(x[1], x[2]) >>, x[3], "good", << >>,
                [form |-> "basictag", row |-> x[1], tag |-> x[2]]) :
     x \in {1, 3} \X TagFields \X BOOLEAN}

InitBasicTag == InitWith(BasicTagInputs)

SpecBasicTag == InitBasicTag /\ [][NextParse]_vars

\* C17: a Basic record whose tag field is an unsigned integer outside
\* {1, 73, 74, 75, 76, 77, 78, 79, 144, 149, 206, 215, 227, 235}, values of
\* 256 and above included, never yields a constituent: the parse ends in the
\* unknown-tag assertion.
C17_UnknownTagNeverAccepted ==
  Parsed /\ input.shape.form = "basictag"
         /\ input.shape.tag \notin {1, 73, 74, 75, 76, 77, 78, 79, 144, 149, 206, 215, 227, 235} =>
    /\ out.aborted
    /\ out.constituents = << >>


\* ------------------------------------------------------- output formatting
\* A double in degrees is a sign and a magnitude in units of 10^-Res degrees,
\* Res being one more than the largest number of decimals printed; the sign
\* is kept apart because fmod and printf distinguish -0 from 0.
RECURSIVE Pow10(_)
Pow10(n) == IF n = 0 THEN 1 ELSE 10 * Pow10(n - 1)

Res == MaxDecimals + 1

Unit == Pow10(Res)

Double(n) == [neg |-> n < 0, mag |-> IF n < 0 THEN -n ELSE n]

\* the value, for comparisons (-0 = 0)
Val(x) == IF x.neg THEN -x.mag ELSE x.mag

\* fmod (x, 360): exact, with the sign of x
fmod360(x) == [neg |-> x.neg, mag |-> x.mag % (360 * Unit)]

Digits == << "0", "1", "2", "3", "4", "5", "6", "7", "8", "9" >>

\* the decimal digits of n, at least one
RECURSIVE IntDigits(_)
IntDigits(n) ==
  IF n < 10 THEN << Digits[n + 1] >>
  ELSE Append(IntDigits(n \div 10), Digits[(n % 10) + 1])

\* the last d decimal digits of n
RECURSIVE FracDigits(_, _)
FracDigits(n, d) ==
  IF d = 0 THEN << >>
  ELSE Append(FracDigits(n \div 10, d - 1), Digits[(n % 10) + 1])

\* mag in units of 10^-decimals, ties to the even neighbour
RoundHalfEven(mag, decimals) ==
  LET step == Pow10(Res - decimals)
      n == mag \div step
      rem == mag % step
  IN  IF 2 * rem > step \/ (2 * rem = step /\ n % 2 = 1) THEN n + 1 ELSE n

RECURSIVE PadLeft(_, _)
PadLeft(text, width) ==
  IF Len(text) >= width THEN text ELSE PadLeft(<< " " >> \o text, width)

\* sprintf (temp, "%*.*f", width, decimals, x), with the ' ' flag if space
sprintf(space, width, decimals, x) ==
  LET n == RoundHalfEven(x.mag, decimals)
      sign == IF x.neg THEN << "-" >> ELSE IF space THEN << " " >> ELSE << >>
  IN  PadLeft(sign \o IntDigits(n \div Pow10(decimals)) \o << "." >>
                \o FracDigits(n % Pow10(decimals), decimals), width)

\* !strncmp (temp, prefix, Len(prefix))
StartsWith(text, prefix) ==
  Len(text) >= Len(prefix) /\ SubSeq(text, 1, Len(prefix)) = prefix

Blank(text, n) == [i \in 1..Len(text) |-> IF i <= n THEN " " ELSE text[i]]

normalizeAsserts(decimals) == decimals > 0 /\ decimals <= 20

\* (mutant) the "36" test is left out
normalize_Keep36(degrees, decimals) ==
  LET d1 == fmod360(degrees)
      d2 == IF Val(d1) < 0 THEN Double(Val(d1) + 360 * Unit) ELSE d1
  IN  sprintf(FALSE, 4 + decimals, decimals, [neg |-> FALSE, mag |-> d2.mag])

\* (mutant) a negative remainder is not brought back into the range
normalize_NoWrap(degrees, decimals) ==
  LET temp == sprintf(FALSE, 4 + decimals, decimals,
                      [neg |-> FALSE, mag |-> fmod360(degrees).mag])
  IN  IF StartsWith(temp, << "3", "6" >>) THEN Blank(temp, 2) ELSE temp

normalize(degrees, decimals) ==
  LET d1 == fmod360(degrees)
      d2 == IF Val(d1) < 0 THEN Double(Val(d1) + 360 * Unit) ELSE d1
      d3 == [neg |-> FALSE, mag |-> d2.mag]
      temp == sprintf(FALSE, 4 + decimals, decimals, d3)
  IN  IF StartsWith(temp, << "3", "6" >>) THEN Blank(temp, 2) ELSE temp

\* (mutant) the "-18" test is left out
snormalize_KeepMinus(degrees, decimals) ==
  LET d1 == fmod360(degrees)
      d2 == IF Val(d1) <= -180 * Unit THEN Double(Val(d1) + 360 * Unit)
            ELSE IF Val(d1) > 180 * Unit THEN Double(Val(d1) - 360 * Unit)
            ELSE d1
  IN  sprintf(TRUE, 5 + decimals, decimals, d2)

snormalize(degrees, decimals) ==
  LET d1 == fmod360(degrees)
      d2 == IF Val(d1) <= -180 * Unit THEN Double(Val(d1) + 360 * Unit)
            ELSE IF Val(d1) > 180 * Unit THEN Double(Val(d1) - 360 * Unit)
            ELSE d1
      temp == sprintf(TRUE, 5 + decimals, decimals, d2)
  IN  IF StartsWith(temp, << "-", "1", "8" >>) THEN Blank(temp, 1) ELSE temp

\* the degrees given to the two functions: turns of 360 plus 0, 18, 36 or
\* 180 degrees plus a few units of every decimal place
Offsets == {m * Pow10(j) : m \in -7..7, j \in 0..(Res - 2)}

DegreeInputs ==
  {(360 * k + g) * Unit + e : k \in -MaxTurns..MaxTurns, g \in {0, 18, 36, 180}, e \in Offsets}

NormInputs == [degrees : DegreeInputs, decimals : 0..MaxDecimals]

NoText == [kind |-> "none", aborted |-> FALSE, text |-> << >>]

InitNormalize ==
  /\ cache = CacheInit
  /\ called = FALSE
  /\ a = ConstituentDefault
  /\ b = ConstituentDefault
  /\ call = NoCall
  /\ steps = 0
  /\ pc = "ready"
  /\ input \in NormInputs
  /\ out = NoText

NormalizeCall ==
  /\ pc = "ready"
  /\ out' = IF normalizeAsserts(input.decimals)
            THEN [kind |-> "normalize", aborted |-> FALSE,
                  text |-> normalize(Double(input.degrees), input.decimals)]
            ELSE [kind |-> "normalize", aborted |-> TRUE, text |-> << >>]
  /\ pc' = "returned"
  /\ UNCHANGED << cache, called, a, b, call, steps, input >>

SnormalizeCall ==
  /\ pc = "ready"
  /\ out' = IF normalizeAsserts(input.decimals)
            THEN [kind |-> "snormalize", aborted |-> FALSE,
                  text |-> snormalize(Double(input.degrees), input.decimals)]
            ELSE [kind |-> "snormalize", aborted |-> TRUE, text |-> << >>]
  /\ pc' = "returned"
  /\ UNCHANGED << cache, called, a, b, call, steps, input >>

NextNormalize ==
  \/ NormalizeCall
  \/ SnormalizeCall

SpecNormalize == InitNormalize /\ [][NextNormalize]_vars


\* ------------------------------------------------ claims on the formatting
Abs(n) == IF n < 0 THEN -n ELSE n

DigitChars == {Digits[i] : i \in 1..10}

DigitVal(c) == (CHOOSE i \in 1..10 : Digits[i] = c) - 1

\* text is blanks, an optional '-', one or more digits, '.', and d digits
WellFormed(text, d) ==
  /\ Len(text) >= d + 2
  /\ text[Len(text) - d] = "."
  /\ \A i \in (Len(text) - d + 1)..Len(text) : text[i] \in DigitChars
  /\ \E sp \in 0..(Len(text) - d - 2), signed \in {0, 1} :
       /\ sp + signed <= Len(text) - d - 2
       /\ \A i \in 1..sp : text[i] = " "
       /\ signed = 1 => text[sp + 1] = "-"
       /\ \A i \in (sp + signed + 1)..(Len(text) - d - 1) : text[i] \in DigitChars

\* the digits of text read as one number: the value in units of 10^-d
RECURSIVE DigitsValue(_, _)
DigitsValue(text, i) ==
  IF i = 0 THEN 0
  ELSE IF text[i] \in DigitChars
  THEN DigitVal(text[i])
       + 10 * DigitsValue(text, CHOOSE j \in 0..(i - 1) :
                                  /\ j = 0 \/ text[j] \in DigitChars
                                  /\ \A m \in (j + 1)..(i - 1) : text[m] \notin DigitChars)
  ELSE DigitsValue(text, i - 1)

NumValue(text) ==
  IF \E i \in 1..Len(text) : text[i] = "-"
  THEN -DigitsValue(text, Len(text)) ELSE DigitsValue(text, Len(text))

Zeros(d) == [i \in 1..d |-> "0"]

\* the reference values: the degrees reduced to [0, 360) and to (-180, 180]
Reduced(x) == x % (360 * Unit)

SignedReduced(x) == IF Reduced(x) > 180 * Unit THEN Reduced(x) - 360 * Unit ELSE Reduced(x)

Formatted(kind) ==
  pc = "returned" /\ out.kind = kind /\ input.decimals \in 1..20

\* C18: for every x and every d in 1..20, normalize(x, d) is a string of
\* exactly 4+d characters with d decimals whose value v satisfies
\* 0 <= v < 360 and is x modulo 360 rounded to d decimals; a value that
\* rounds up to 360 is printed as 0 with the first two characters blank, also
\* when x is a small negative number; normalize(359.999, 2) and
\* normalize(-0.004, 2) are both two blanks followed by 0.00.
C18_NormalizeRange ==
  Formatted("normalize") =>
    LET d == input.decimals
        step == Pow10(Res - d)
        r == Reduced(input.degrees)
        v == NumValue(out.text)
    IN  /\ ~out.aborted
        /\ Len(out.text) = 4 + d
        /\ WellFormed(out.text, d)
        /\ \A i \in 1..Len(out.text) : out.text[i] # "-"
        /\ 0 <= v /\ v < 360 * Pow10(d)
        /\ \/ 2 * Abs(v * step - r) <= step
           \/ v = 0 /\ 2 * (360 * Unit - r) <= step
        /\ 2 * (360 * Unit - r) < step =>
             out.text = << " ", " ", "0", "." >> \o Zeros(d)
        /\ d = 2 /\ input.degrees \in {359999 * Pow10(Res - 3), -4 * Pow10(Res - 3)} =>
             out.text = << " ", " ", "0", ".", "0", "0" >>

\* normalize(359.999, 2)
C18_Witness ==
  /\ Formatted("normalize")
  /\ input.decimals = 2
  /\ input.degrees = 359999 * Pow10(Res - 3)
  /\ out.text = << " ", " ", "0", ".", "0", "0" >>

\* x is at least 10^-d away from every multiple of 360
AwayFromTurn(x, d) ==
  Reduced(x) >= Pow10(Res - d) /\ 360 * Unit - Reduced(x) >= Pow10(Res - d)

Plus180(d) == << " ", "1", "8", "0", "." >> \o Zeros(d)

\* what C20 says of every x and d, its two examples aside
SnormalizeRange ==
  LET d == input.decimals
      step == Pow10(Res - d)
      r == SignedReduced(input.degrees)
      v == NumValue(out.text)
  IN  /\ ~out.aborted
      /\ Len(out.text) = 5 + d
      /\ WellFormed(out.text, d)
      /\ -180 * Pow10(d) < v /\ v <= 180 * Pow10(d)
      /\ \/ 2 * Abs(v * step - r) <= step
         \/ v = 180 * Pow10(d) /\ 2 * (180 * Unit + r) <= step
      /\ r = 180 * Unit => out.text = Plus180(d)
      /\ 2 * (180 * Unit + r) < step => out.text = Plus180(d)

\* C20 as stated: for every x and every d in 1..20, snormalize(x, d) is a
\* string of width 5+d whose value v satisfies -180 < v <= 180; inputs
\* congruent to -180 modulo 360 and inputs that round to -180 are printed as
\* +180 with a leading blank; snormalize(180.0, 2) is 180.00 and
\* snormalize(-179.996, 2) is a blank followed by 180.00.
C20_SnormalizeRange ==
  Formatted("snormalize") =>
    /\ SnormalizeRange
    /\ input.decimals = 2 /\ input.degrees = 180 * Unit =>
         out.text = << "1", "8", "0", ".", "0", "0" >>
    /\ input.decimals = 2 /\ input.degrees = -179996 * Pow10(Res - 3) =>
         out.text = << " ", "1", "8", "0", ".", "0", "0" >>

\* C20 amended: as stated, except that snormalize(180.0, 2) is a blank
\* followed by 180.00 too (7 = 5+d characters), the same string as
\* snormalize(-179.996, 2).
C20_SnormalizeRangeBlank180 ==
  Formatted("snormalize") =>
    /\ SnormalizeRange
    /\ input.decimals = 2 /\ input.degrees \in {180 * Unit, -179996 * Pow10(Res - 3)} =>
         out.text = << " ", "1", "8", "0", ".", "0", "0" >>

\* snormalize(-179.996, 2)
C20_Witness ==
  /\ Formatted("snormalize")
  /\ input.decimals = 2
  /\ input.degrees = -179996 * Pow10(Res - 3)
  /\ out.text = Plus180(2)


\* --------------------------------------------------------- year assertions
\* years at both ends of the range
YearEdges == {0, 1, 2, 4000, 4001, 4002}

\* triples of such years, those that pass the assertions spanning at most
\* two years
EdgeTriples ==
  {t \in YearEdges \X YearEdges \X YearEdges : t[2] - t[1] <= 1 \/ t[2] > 4000}

YearCall(kind, t) ==
  [NoCall EXCEPT !.kind = kind, !.firstYear = t[1], !.lastYear = t[2],
                 !.epochForSpeed = t[3]]

\* startYear (year): the time, or an assertion
CallStartYear ==
  /\ pc = "idle"
  /\ \E y \in YearEdges :
       /\ call' = YearCall("startYear", << y, y, y >>)
       /\ IF startYearAsserts(y)
          THEN pc' = "built" /\ out' = [NoOut EXCEPT !.ret = startYear(y)]
          ELSE pc' = "aborted" /\ out' = out
  /\ UNCHANGED << cache, called, a, b, steps, input >>

\* midYear (year): the time, or an assertion (its own or startYear's)
CallMidYear ==
  /\ pc = "idle"
  /\ \E y \in YearEdges :
       /\ call' = YearCall("midYear", << y, y, y >>)
       /\ IF midYearAsserts(y) /\ startYearAsserts(y) /\ startYearAsserts(y + 1)
          THEN pc' = "built" /\ out' = [NoOut EXCEPT !.ret = midYear(y)]
          ELSE pc' = "aborted" /\ out' = out
  /\ UNCHANGED << cache, called, a, b, steps, input >>

CallBasicYears ==
  /\ pc = "idle"
  /\ \E t \in EdgeTriples :
       /\ call' = YearCall("Basic", t)
       /\ IF BasicAsserts(BaseTable[4][2], BaseTable[4][3], BaseTable[4][4], t[1], t[2], t[3])
          THEN pc' = "built" /\ a' = BuildTerm(4, t[1], t[2], t[3])
          ELSE pc' = "aborted" /\ a' = a
  /\ UNCHANGED << cache, called, b, steps, input, out >>

CallDoodsonYears ==
  /\ pc = "idle"
  /\ \E t \in EdgeTriples :
       /\ call' = YearCall("Doodson", t)
       /\ IF DoodsonAsserts(BaseTable[4][2], t[1], t[2], t[3])
          THEN /\ pc' = "built"
               /\ a' = Doodson("M2", BaseTable[4][2], << Satellite(0, 1, 0, 180, 1) >>,
                               t[1], t[2], t[3])
          ELSE pc' = "aborted" /\ a' = a
  /\ UNCHANGED << cache, called, b, steps, input, out >>

\* the assertions come before the test of the cached key
CallCompoundYears ==
  /\ pc = "idle"
  /\ \E t \in EdgeTriples :
       LET c == CoefVector(1, 1, 1)
           cache1 == CacheAfter(cache, t[1], t[2], t[3])
       IN  /\ call' = [YearCall("Compound", t) EXCEPT !.coefficients = c]
           /\ IF CompoundAsserts(c, t[1], t[2], t[3])
              THEN /\ pc' = "built"
                   /\ cache' = cache1
                   /\ called' = TRUE
                   /\ a' = Compound(cache1, "X", c, t[1], t[2], t[3])
              ELSE pc' = "aborted" /\ UNCHANGED << cache, called, a >>
  /\ UNCHANGED << b, steps, input, out >>

NextYears ==
  \/ CallStartYear
  \/ CallMidYear
  \/ CallBasicYears
  \/ CallDoodsonYears
  \/ CallCompoundYears
  \/ Release

SpecYears == Init /\ [][NextYears]_vars

\* C21: startYear stops in an assertion exactly for the years outside
\* [1, 4001], midYear exactly for the years outside [1, 4000], and each of the
\* three constructors exactly when firstYear < 1, lastYear > 4000,
\* lastYear < firstYear or epochForSpeed is outside [1, 4000]; a constructor
\* that stops has computed no series element and has left the Compound cache
\* as it was.
C21_YearRangeAsserted ==
  [][pc = "idle" /\ pc' # "idle" =>
       /\ call'.kind = "startYear" =>
            (pc' = "aborted" <=> (call'.firstYear < 1 \/ call'.firstYear > 4001))
       /\ call'.kind = "midYear" =>
            (pc' = "aborted" <=> (call'.firstYear < 1 \/ call'.firstYear > 4000))
       /\ call'.kind \in {"Basic", "Doodson", "Compound"} =>
            (pc' = "aborted" <=>
               \/ call'.firstYear < 1
               \/ call'.lastYear > 4000
               \/ call'.lastYear < call'.firstYear
               \/ call'.epochForSpeed < 1
               \/ call'.epochForSpeed > 4000)
       /\ pc' = "aborted" => cache' = cache /\ a' = ConstituentDefault /\ a' = a
       /\ pc' = "built" /\ call'.kind \in {"Basic", "Doodson", "Compound"} =>
            Len(a'.f) = call'.lastYear - call'.firstYear + 1]_vars

\* a Compound construction for the years 4000..4001 stopped, with the cache
\* still holding the bases of an earlier construction
C21_Witness ==
  /\ pc = "aborted"
  /\ call.kind = "Compound"
  /\ call.firstYear = 4000
  /\ call.lastYear = 4001
  /\ called
  /\ CachedTriple(cache) = << 1, 2, 1 >>
  /\ a = ConstituentDefault


\* ------------------------------------- concurrent Compound constructions
\* Two threads of one process each run one constructor.  pc, call and out are
\* functions of the thread; cache is the function statics, which the threads
\* share.  An unsynchronized access to the statics is taken statement by
\* statement: the three key writes together, then the assignments
\* terms[i] = ... and the additions operator+= (coefficients[i] * terms[i]),
\* of which the ones after the first MaxSteps are taken together (a subset of
\* the interleavings of an unsynchronized run).  input.serialized tells
\* whether the callers hold a lock around the Compound constructor.
Threads == {1, 2}

\* the triple of thread 1, and the triples thread 2 may have
ThreadTriples ==
  { << BaseYear, BaseYear, BaseYear >>,
    << BaseYear, BaseYear, BaseYear + YearSpan >>,
    << BaseYear, BaseYear + YearSpan, BaseYear >> }

ThreadCoefficients == CoefVector(1, 1, 1)

ThreadCall(kind, t) ==
  [kind |-> kind, firstYear |-> t[1], lastYear |-> t[2], epochForSpeed |-> t[3],
   i |-> 0]

InitThreads ==
  /\ cache = CacheInit
  /\ called = FALSE
  /\ a = ConstituentDefault
  /\ b = ConstituentDefault
  /\ steps = 0
  /\ input \in [serialized : BOOLEAN]
  /\ \E k1 \in {"Compound", "Basic"}, t \in ThreadTriples :
       call = [th \in Threads |->
                 IF th = 1 THEN ThreadCall(k1, << BaseYear, BaseYear, BaseYear >>)
                 ELSE ThreadCall("Compound", t)]
  /\ pc = [th \in Threads |-> "start"]
  /\ out = [th \in Threads |-> ConstituentDefault]

\* the lock the callers hold, if they serialize
LockFree(th) ==
  ~input.serialized
  \/ \A o \in Threads \ {th} :
       call[o].kind # "Compound" \/ pc[o] \in {"start", "done", "aborted"}

\* the assertions at the head of the constructor
ThreadEnter(th) ==
  /\ pc[th] = "start"
  /\ call[th].kind = "Compound"
  /\ LockFree(th)
  /\ pc' = [pc EXCEPT ![th] =
              IF CompoundAsserts(ThreadCoefficients, call[th].firstYear,
                                 call[th].lastYear, call[th].epochForSpeed)
              THEN "check" ELSE "aborted"]
  /\ UNCHANGED << cache, called, a, b, call, steps, input, out >>

\* if (firstYear != firstYear_cached || ...)
ThreadCheck(th) ==
  /\ pc[th] = "check"
  /\ pc' = [pc EXCEPT ![th] =
              IF CacheMiss(cache, call[th].firstYear, call[th].lastYear,
                           call[th].epochForSpeed)
              THEN "key" ELSE "resize"]
  /\ UNCHANGED << cache, called, a, b, call, steps, input, out >>

\* firstYear_cached = firstYear; lastYear_cached = ...; epochForSpeed_cached = ...
ThreadWriteKey(th) ==
  /\ pc[th] = "key"
  /\ cache' = [cache EXCEPT !.firstYear_cached = call[th].firstYear,
                            !.lastYear_cached = call[th].lastYear,
                            !.epochForSpeed_cached = call[th].epochForSpeed]
  /\ call' = [call EXCEPT ![th].i = 1]
  /\ pc' = [pc EXCEPT ![th] = "build"]
  /\ UNCHANGED << called, a, b, steps, input, out >>

\* the statements the threads interleave: the first MaxSteps assignments (and
\* additions) one by one, the remaining ones together
Chunk(i) == IF i <= MaxSteps THEN i..i ELSE i..numCompoundBases

ChunkEnd(i) == IF i <= MaxSteps THEN i ELSE numCompoundBases

\* terms[i] = Congen::Constituent (...)
ThreadBuild(th) ==
  /\ pc[th] = "build"
  /\ cache' = [cache EXCEPT !.terms =
                 [j \in 1..numCompoundBases |->
                    IF j \in Chunk(call[th].i)
                    THEN BuildTerm(j, call[th].firstYear, call[th].lastYear,
                                   call[th].epochForSpeed)
                    ELSE @[j]]]
  /\ call' = [call EXCEPT ![th].i = ChunkEnd(@) + 1]
  /\ pc' = [pc EXCEPT ![th] =
              IF ChunkEnd(call[th].i) = numCompoundBases THEN "resize" ELSE "build"]
  /\ UNCHANGED << called, a, b, steps, input, out >>

\* resize (lastYear-firstYear+1)
ThreadResize(th) ==
  /\ pc[th] = "resize"
  /\ out' = [out EXCEPT ![th] =
               resize(ConstituentDefault, call[th].lastYear - call[th].firstYear + 1)]
  /\ call' = [call EXCEPT ![th].i = 1]
  /\ pc' = [pc EXCEPT ![th] = "sum"]
  /\ UNCHANGED << cache, called, a, b, steps, input >>

\* operator+= (coefficients[i] * terms[i]) for i up to last
RECURSIVE AccumulateTo(_, _, _, _, _)
AccumulateTo(this, coefficients, terms, i, last) ==
  IF i > last THEN this
  ELSE AccumulateTo(PlusAssign(this, Times(coefficients[i], terms[i])),
                    coefficients, terms, i + 1, last)

\* operator+= (coefficients[i] * terms[i]), and name = name_in after the last
ThreadSum(th) ==
  /\ pc[th] = "sum"
  /\ LET last == ChunkEnd(call[th].i)
         sum == AccumulateTo(out[th], ThreadCoefficients, cache.terms, call[th].i, last)
     IN  IF \A j \in Chunk(call[th].i) : PlusAssignAsserts(out[th], cache.terms[j])
         THEN /\ out' = [out EXCEPT ![th] =
                           IF last = numCompoundBases THEN [sum EXCEPT !.name = "X"]
                           ELSE sum]
              /\ pc' = [pc EXCEPT ![th] =
                          IF last = numCompoundBases THEN "done" ELSE "sum"]
         ELSE /\ out' = out
              /\ pc' = [pc EXCEPT ![th] = "aborted"]
  /\ call' = [call EXCEPT ![th].i = ChunkEnd(@) + 1]
  /\ UNCHANGED << cache, called, a, b, steps, input >>

\* another operation of the core: a Basic construction
ThreadBasic(th) ==
  /\ pc[th] = "start"
  /\ call[th].kind = "Basic"
  /\ out' = [out EXCEPT ![th] =
               BuildTerm(4, call[th].firstYear, call[th].lastYear, call[th].epochForSpeed)]
  /\ pc' = [pc EXCEPT ![th] = "done"]
  /\ UNCHANGED << cache, called, a, b, call, steps, input >>

ThreadStep(th) ==
  \/ ThreadEnter(th)
  \/ ThreadCheck(th)
  \/ ThreadWriteKey(th)
  \/ ThreadBuild(th)
  \/ ThreadResize(th)
  \/ ThreadSum(th)
  \/ ThreadBasic(th)

NextThreads == \E th \in Threads : ThreadStep(th)

SpecThreads == InitThreads /\ [][NextThreads]_vars

\* what the construction of thread th gives when it runs alone
AloneResult(th) ==
  Compound(FreshCache(<< call[th].firstYear, call[th].lastYear, call[th].epochForSpeed >>),
           "X", ThreadCoefficients, call[th].firstYear, call[th].lastYear,
           call[th].epochForSpeed)

\* thread th has finished with a sum that holds bases of another triple or
\* of the empty cache, or has stopped in operator+= on a base of another
\* length
Mixed(th) ==
  /\ call[th].kind = "Compound"
  /\ \/ pc[th] = "done" /\ out[th] # AloneResult(th)
     \/ pc[th] = "aborted"

\* C22: when the Compound constructions are serialized, every construction
\* sums the 13 bases of its own triple (while it resizes and sums, the cache
\* holds exactly the key and the bases of its triple, and its result is the
\* one it has when run alone), and in every run only the Compound constructor
\* changes the cache; without serialization a construction can finish with
\* bases of the other triple or of a partly rebuilt cache (C22_Witness).
C22_SerializedCompoundIsolated ==
  /\ [](input.serialized =>
          \A th \in Threads :
            /\ ~Mixed(th)
            /\ call[th].kind = "Compound" /\ pc[th] \in {"resize", "sum"} =>
                 cache = FreshCache(<< call[th].firstYear, call[th].lastYear,
                                       call[th].epochForSpeed >>))
  /\ [][cache' # cache =>
          \E th \in Threads :
            call[th].kind = "Compound" /\ pc[th] \in {"key", "build"}]_vars

\* two unserialized constructions whose triples differ in the speed epoch:
\* the first has finished with a sum that is not the one of its triple, and
\* the cached key is the other thread's while the bases are only partly
\* replaced
C22_Witness ==
  /\ ~input.serialized
  /\ call[1].kind = "Compound"
  /\ call[2].epochForSpeed # call[1].epochForSpeed
  /\ pc[1] = "done"
  /\ out[1] # AloneResult(1)
  /\ pc[2] = "build"
  /\ CachedTriple(cache) = << call[2].firstYear, call[2].lastYear, call[2].epochForSpeed >>
  /\ cache # FreshCache(CachedTriple(cache))


\* ------------------------------------- line breaks in a Doodson record
\* the i-th block of the records below; every third one is an 'R' block
FlatBlock(i) ==
  CASE i % 3 = 1 -> Block(0, -1, 0, 1, Num(5))
    [] i % 3 = 2 -> Block(1, 0, -1, 0, Num(3))
    [] OTHER -> Block(0, -1, 0, 1, NumSfx(5, "R"))

RECURSIVE FlatBlocks(_)
FlatBlocks(n) == IF n = 0 THEN << >> ELSE FlatBlocks(n - 1) \o FlatBlock(n)

\* the tokens of the record: name, kind, 6 V-coefficients, N, N blocks
FlatTokens(N) == DoodsonHeader(N) \o FlatBlocks(N)

\* the lines of the tokens toks when a line break precedes the tokens whose
\* index is in brk
RECURSIVE SplitLines(_, _, _, _)
SplitLines(toks, brk, i, cur) ==
  IF i > Len(toks) THEN << Line(cur, FALSE) >>
  ELSE IF i \in brk THEN << Line(cur, FALSE) >> \o SplitLines(toks, brk, i + 1, << toks[i] >>)
  ELSE SplitLines(toks, brk, i + 1, Append(cur, toks[i]))

\* records with N blocks and at most MaxBreaks line breaks, each before one
\* of the 6 + 5 N tokens that follow the kind keyword
FlatShapes ==
  UNION { [form : {"flat"}, N : {n},
           brk : {x \in SUBSET (3..(9 + 5 * n)) : Cardinality(x) <= MaxBreaks},
           nl : BOOLEAN] : n \in 0..MaxSats }

FlatRecInputs ==
  {CatalogInput(SplitLines(FlatTokens(s.N), s.brk, 1, << >>), s.nl, "good", << >>, s) :
     s \in FlatShapes}

InitFlatRec == InitWith(FlatRecInputs)

SpecFlatRec == InitFlatRec /\ [][NextParse]_vars

\* the record on a single line
FlatOnOneLine(s) == ParseOf(<< Line(FlatTokens(s.N), FALSE) >>, s.nl)

\* the places where a block starts: before the tokens 10, 15, 20, ...
BlockStarts(N) == {10 + 5 * k : k \in 0..(N - 1)}

\* C23 as stated: for every placement of line breaks between the tokens of a
\* Doodson record, parseLegacyInput accepts the record and builds the same
\* constituent as for the record on a single line.
C23_FlatTokenList ==
  Parsed /\ input.shape.form = "flat" =>
    /\ out.ret = 0
    /\ ~out.aborted
    /\ Len(out.constituents) = 1
    /\ out.constituents = FlatOnOneLine(input.shape).constituents

\* C23 amended: for every placement of line breaks in which each break
\* directly precedes a satellite block (after the count N or after the r-token
\* of the block before), parseLegacyInput accepts the record and builds the
\* same constituent as for the record on a single line; a line break before
\* any other of the 6 + 5 N tokens makes it return the number of a line of the
\* record and build nothing.
C23_BreaksBeforeBlocks ==
  Parsed /\ input.shape.form = "flat" =>
    LET s == input.shape
    IN  IF s.brk \subseteq BlockStarts(s.N)
        THEN /\ out.ret = 0
             /\ ~out.aborted
             /\ Len(out.constituents) = 1
             /\ out.constituents = FlatOnOneLine(s).constituents
             /\ out.constituents[1]
                  = Doodson("M2", BaseTable[4][2],
                            KeptSatellites([i \in 1..s.N |-> FlatBlock(i)]),
                            input.firstYear, input.lastYear, input.epochForSpeed)
        ELSE /\ out.ret \in 1..(Cardinality(s.brk) + 1)
             /\ ~out.aborted
             /\ out.constituents = << >>

\* two blocks, each on a line of its own
C23_Witness ==
  /\ pc = "returned"
  /\ input.shape.form = "flat"
  /\ input.shape.N = 2
  /\ input.shape.brk = {10, 15}
  /\ out.ret = 0
  /\ Len(out.constituents) = 1


\* ------------------------------------------- the satellite list passed on
\* the satellite list a Doodson constituent was built from, read off the
\* satellite term of its first node factor (no term: the empty list)
PassedSatellites(c) ==
  LET terms == {x \in DOMAIN c.f[1] : x.t = "satf"}
  IN  IF terms = {} THEN << >> ELSE (CHOOSE x \in terms : TRUE).s

HasR(block) == block[5].s # ""

\* the blocks of the record without 'R' in the r-token, in input order
RECURSIVE NonRBlocks(_)
NonRBlocks(blocks) ==
  IF blocks = << >> THEN << >>
  ELSE (IF HasR(Head(blocks)) THEN << >> ELSE << Head(blocks) >>)
       \o NonRBlocks(Tail(blocks))

\* C24: the satellite list passed to the Doodson constructor consists of
\* exactly the blocks of the record whose r-token contains no 'R', in input
\* order, each with dN negated, alpha multiplied by 360 and dp, dp1 and r as
\* read; its length is N minus the number of 'R' blocks.
C24_SatelliteListPassed ==
  (Parsed /\ input.shape.form = "doodson" /\ Len(input.shape.blocks) = input.shape.N) =>
    LET s == input.shape
        kept == NonRBlocks(s.blocks)
        sats == PassedSatellites(out.constituents[1])
    IN  /\ out.ret = 0
        /\ Len(out.constituents) >= 1
        /\ Len(sats) = s.N - Cardinality({i \in 1..s.N : HasR(s.blocks[i])})
        /\ Len(sats) = Len(kept)
        /\ \A i \in 1..Len(kept) :
             /\ sats[i].dp = kept[i][1].v
             /\ sats[i].dN = -kept[i][2].v
             /\ sats[i].dp1 = kept[i][3].v
             /\ sats[i].alpha = 360 * kept[i][4].v
             /\ sats[i].r = kept[i][5].v

\* an 'R' block between two kept blocks when MaxSats allows, else before one
C24_Witness ==
  /\ pc = "returned"
  /\ input.shape.form = "doodson"
  /\ input.shape.N = 2
  /\ Len(input.shape.blocks) = 2
  /\ HasR(input.shape.blocks[1])
  /\ ~HasR(input.shape.blocks[2])
  /\ input.shape.blocks[2][4].v = 1
  /\ PassedSatellites(out.constituents[1]) = << Satellite(0, 1, 0, 360, 5) >>


\* ------------------------------------------------ claims on the algebra
\* C25: b += a stops in an assertion and leaves b as it was whenever the
\* series lengths of b and a differ; otherwise it sets b.speed to
\* b.speed + a.speed, b.Vpu[i] to b.Vpu[i] + a.Vpu[i] and b.f[i] to
\* b.f[i] * a.f[i] (the sum of the logarithms) for every i, names b
\* "nameless", keeps b's length, and leaves a as it was.  (a and b are two
\* objects.)
C25_PlusAssignEffect ==
  [][OpPlusAssign =>
       IF Len(b.Vpu) # Len(a.Vpu) \/ Len(b.f) # Len(a.f)
       THEN pc' = "aborted" /\ b' = b /\ a' = a
       ELSE /\ pc' = "built"
            /\ b'.speed = LinAdd(b.speed, a.speed)
            /\ Len(b'.Vpu) = Len(b.Vpu)
            /\ Len(b'.f) = Len(b.f)
            /\ \A i \in 1..Len(b.Vpu) : b'.Vpu[i] = LinAdd(b.Vpu[i], a.Vpu[i])
            /\ \A i \in 1..Len(b.f) : b'.f[i] = LinAdd(b.f[i], a.f[i])
            /\ b'.name = "nameless"
            /\ a' = a]_vars

\* b = a; b += a on a constructed a of two years
C25_Witness ==
  /\ pc = "built"
  /\ steps = 2
  /\ b.name = "nameless"
  /\ a.speed # Zero
  /\ b.speed = LinScale(2, a.speed)
  /\ Len(b.Vpu) = 2
  /\ \A i \in 1..2 : b.Vpu[i] = LinScale(2, a.Vpu[i]) /\ b.f[i] = LinScale(2, a.f[i])

\* C26: x * a and a * x give a new Constituent named "nameless" with speed
\* x a.speed, Vpu[i] = x a.Vpu[i] and f[i] = a.f[i]^|x| (|x| times the
\* logarithm) for every i, of the length of a, and leave a as it was; x and
\* -x give the same f and opposite speed and Vpu.
C26_ScalarTimesEffect ==
  [][OpTimes =>
       /\ a' = a
       /\ pc' = pc
       /\ b'.name = "nameless"
       /\ Len(b'.Vpu) = Len(a.Vpu)
       /\ Len(b'.f) = Len(a.f)
       /\ \E x \in Coefs :
            /\ b'.speed = LinScale(x, a.speed)
            /\ \A i \in 1..Len(a.Vpu) : b'.Vpu[i] = LinScale(x, a.Vpu[i])
            /\ \A i \in 1..Len(a.f) : b'.f[i] = LinScale(IF x < 0 THEN -x ELSE x, a.f[i])
            /\ LET m == Times(-x, a)
               IN  /\ m.f = b'.f
                   /\ m.speed = LinScale(-1, b'.speed)
                   /\ \A i \in 1..Len(a.Vpu) : m.Vpu[i] = LinScale(-1, b'.Vpu[i])]_vars

\* b = -1 * a for a constructed a with a node factor other than 1
C26_Witness ==
  /\ pc = "built"
  /\ steps = 1
  /\ b.name = "nameless"
  /\ a.speed # Zero
  /\ b.speed = LinScale(-1, a.speed)
  /\ Len(b.f) >= 1
  /\ a.f[1] # Zero
  /\ b.f[1] = a.f[1]
  /\ b.Vpu[1] = LinScale(-1, a.Vpu[1])


\* ------------------------------------------------ the vector of the parser
\* the record that starts on line i is complete within the first n lines: a
\* Basic or Compound record is its line; a Doodson record that announces a
\* satellite is complete with the block line that follows it (empty lines
\* between)
RecordEndsBy(lines, i, n) ==
  \/ KindOf(lines[i]) \in {"Basic", "Compound"}
  \/ /\ KindOf(lines[i]) = "Doodson"
     /\ \E j \in (i + 1)..n :
          /\ BlockWellFormed(lines[j].toks)
          /\ \A k \in (i + 1)..(j - 1) : lines[k] = EmptyLine

\* the names of the records complete within the first n lines, in order
RECURSIVE RecordNames(_, _, _)
RecordNames(lines, i, n) ==
  IF i > n \/ i > Len(lines) THEN << >>
  ELSE IF i <= Len(lines) /\ RecordEndsBy(lines, i, IF n < Len(lines) THEN n ELSE Len(lines))
       THEN << TokText(lines[i].toks[1]) >> \o RecordNames(lines, i + 1, n)
       ELSE RecordNames(lines, i + 1, n)

\* the catalog cut after its first n lines
CutAfter(is, n) ==
  IF n >= Len(is.lines) THEN is
  ELSE [is EXCEPT !.lines = SubSeq(is.lines, 1, n), !.nl = TRUE]

\* C27: parseLegacyInput only appends to the vector: the elements present
\* before the call are as they were, the appended constituents carry the
\* names of the records of the input in order, and when a nonzero line
\* number is returned the vector is the one the lines before that line give.
C27_ParseOnlyAppends ==
  pc = "returned" =>
    LET pre == input.constituents
        res == out.constituents
        n == IF out.ret = 0 THEN Len(input.is.lines) ELSE out.ret - 1
        before == parseLegacyInput(CutAfter(input.is, n), input.firstYear,
                                   input.lastYear, input.epochForSpeed, pre,
                                   CacheInit)
    IN  /\ Len(res) >= Len(pre)
        /\ SubSeq(res, 1, Len(pre)) = pre
        /\ [k \in 1..(Len(res) - Len(pre)) |-> res[Len(pre) + k].name]
             = RecordNames(input.is.lines, 1, n)
        /\ out.ret # 0 => ~before.aborted /\ before.constituents = res

\* a Basic and a Compound record appended in order before a malformed line 3
C27_Witness ==
  /\ pc = "returned"
  /\ out.ret = 3
  /\ Len(out.constituents) = 2
  /\ out.constituents[1].name = BaseTable[1][1]
  /\ out.constituents[2].name = "MK3"

\* a vector that held a constituent before the call, one record appended
C27_WitnessKept ==
  /\ pc = "returned"
  /\ input.constituents # << >>
  /\ Len(out.constituents) = 2


\* --------------------------------------- the per-year loop, step by step
\* The constructors taken one loop iteration at a time, keeping only the
\* years and the indices: call holds the arguments, base (the compound base
\* under construction, 0 in a direct call), the loop counter y and iters, the
\* iterations done; out holds the years startYear and midYear received in
\* the last step, the index written in it and size, the length of the series.
\* Of the statics only the key is kept.

\* year_t: the counter is taken as 16 bits wide
yearModulus == 65536

YearT(x) == x % yearModulus

\* the triples of the loop: short ranges at both ends of [1, 4000] and the
\* whole of it
LoopTriples ==
  {t \in ({1} \cup ((4000 - YearSpan)..4000)) \X (1..4000) \X {1, 4000} :
     t[2] >= t[1] /\ (t[2] - t[1] <= YearSpan \/ (t[1] = 1 /\ t[2] = 4000 /\ t[3] = 1))}

NoLoopCall ==
  [kind |-> "none", firstYear |-> 0, lastYear |-> 0, epochForSpeed |-> 0,
   base |-> 0, y |-> 0, iters |-> 0]

NoLoopOut == [startYears |-> {}, midYears |-> {}, index |-> -1, size |-> 0]

InitLoop ==
  /\ cache = CacheInit
  /\ called = FALSE
  /\ a = ConstituentDefault
  /\ b = ConstituentDefault
  /\ call = NoLoopCall
  /\ steps = 0
  /\ pc = "idle"
  /\ input = NoInput
  /\ out = NoLoopOut

\* (mutant) midYear averages over two years
midYearCalls_TwoYears(year) == {YearT(year), YearT(year + 2)}

\* the years midYear (year) hands to startYear
midYearCalls(year) == {YearT(year), YearT(year + 1)}

\* a Basic or Doodson constructor up to its loop: the assertions, the two
\* resizes, startYear (epochForSpeed) for the speed, y (firstYear)
LoopEnterBase(kind, t, base) ==
  /\ call' = [kind |-> kind, firstYear |-> t[1], lastYear |-> t[2],
              epochForSpeed |-> t[3], base |-> base, y |-> YearT(t[1]),
              iters |-> 0]
  /\ out' = [startYears |-> {t[3]}, midYears |-> {}, index |-> -1,
             size |-> t[2] - t[1] + 1]
  /\ pc' = IF startYearAsserts(t[3]) THEN "loop" ELSE "aborted"

LoopCallBasic ==
  /\ pc = "idle"
  /\ \E t \in LoopTriples :
       /\ YearAsserts(t[1], t[2], t[3])
       /\ LoopEnterBase("Basic", t, 0)
  /\ UNCHANGED << cache, called, a, b, steps, input >>

LoopCallDoodson ==
  /\ pc = "idle"
  /\ \E t \in LoopTriples :
       /\ YearAsserts(t[1], t[2], t[3])
       /\ LoopEnterBase("Doodson", t, 0)
  /\ UNCHANGED << cache, called, a, b, steps, input >>

\* the Compound constructor up to the first base: with the key of the call
\* cached it goes on to the resize and the sum, which call neither startYear
\* nor midYear
LoopCallCompound ==
  /\ pc = "idle"
  /\ \E t \in LoopTriples :
       /\ YearAsserts(t[1], t[2], t[3])
       /\ IF CacheMiss(cache, t[1], t[2], t[3])
          THEN /\ LoopEnterBase("Compound", t, 1)
               /\ cache' = [cache EXCEPT !.firstYear_cached = t[1],
                                         !.lastYear_cached = t[2],
                                         !.epochForSpeed_cached = t[3]]
          ELSE /\ call' = [NoLoopCall EXCEPT !.kind = "Compound",
                                             !.firstYear = t[1],
                                             !.lastYear = t[2],
                                             !.epochForSpeed = t[3]]
               /\ out' = [NoLoopOut EXCEPT !.size = t[2] - t[1] + 1]
               /\ pc' = "built"
               /\ cache' = cache
  /\ called' = TRUE
  /\ UNCHANGED << a, b, steps, input >>

\* one iteration: y <= lastYear holds; startYear (y), midYear (y), the two
\* elements at y - firstYear, ++y
LoopBody ==
  /\ pc = "loop"
  /\ call.y <= call.lastYear
  /\ LET starts == {call.y} \cup midYearCalls(call.y)
     IN  /\ out' = [out EXCEPT !.startYears = starts, !.midYears = {call.y},
                               !.index = call.y - call.firstYear]
         /\ IF midYearAsserts(call.y) /\ \A y \in starts : startYearAsserts(y)
            THEN /\ pc' = "loop"
                 /\ call' = [call EXCEPT !.y = YearT(@ + 1), !.iters = @ + 1]
            ELSE /\ pc' = "aborted"
                 /\ call' = call
  /\ UNCHANGED << cache, called, a, b, steps, input >>

\* y <= lastYear fails: the loop is left
LoopExit ==
  /\ pc = "loop"
  /\ ~(call.y <= call.lastYear)
  /\ pc' = "exit"
  /\ UNCHANGED << cache, called, a, b, call, steps, input, out >>

\* the constructor returns; in the Compound constructor the next base is
\* constructed, and after the last one the resize and the sum follow
LoopReturn ==
  /\ pc = "exit"
  /\ IF call.kind = "Compound" /\ call.base < numCompoundBases
     THEN LoopEnterBase("Compound",
                        << call.firstYear, call.lastYear, call.epochForSpeed >>,
                        call.base + 1)
     ELSE /\ pc' = "built"
          /\ call' = call
          /\ out' = [out EXCEPT !.startYears = {}, !.midYears = {}, !.index = -1]
  /\ UNCHANGED << cache, called, a, b, steps, input >>

LoopRelease ==
  /\ pc = "built"
  /\ pc' = "idle"
  /\ call' = NoLoopCall
  /\ out' = NoLoopOut
  /\ UNCHANGED << cache, called, a, b, steps, input >>

NextLoop ==
  \/ LoopCallBasic
  \/ LoopCallDoodson
  \/ LoopCallCompound
  \/ LoopBody
  \/ LoopExit
  \/ LoopReturn
  \/ LoopRelease

SpecLoop == InitLoop /\ [][NextLoop]_vars

\* C28: in every constructor call with 1 <= firstYear <= lastYear <= 4000 and
\* 1 <= epochForSpeed <= 4000, startYear receives years of 1..4001 only and
\* midYear years of 1..4000 only, no assertion stops the construction, the
\* loop over the 16-bit counter is left after exactly
\* lastYear - firstYear + 1 iterations, and every index written is within
\* [0, lastYear - firstYear] (and within the series).
C28_LoopWithinRange ==
  /\ pc # "aborted"
  /\ out.startYears \subseteq 1..4001
  /\ out.midYears \subseteq 1..4000
  /\ pc \in {"loop", "exit"} =>
       /\ 1 <= call.firstYear
       /\ call.firstYear <= call.lastYear
       /\ call.lastYear <= 4000
       /\ call.y = call.firstYear + call.iters
       /\ call.iters <= call.lastYear - call.firstYear + 1
       /\ out.index = call.iters - 1
       /\ out.index <= call.lastYear - call.firstYear
       /\ out.index < out.size
  /\ pc = "exit" => call.iters = call.lastYear - call.firstYear + 1

\* the loop of the last compound base left after the iteration of the year
\* 4000, in which startYear has received 4001
C28_Witness ==
  /\ pc = "exit"
  /\ call.kind = "Compound"
  /\ call.base = numCompoundBases
  /\ call.lastYear = 4000
  /\ call.firstYear < 4000
  /\ 4001 \in out.startYears
  /\ out.index = call.lastYear - call.firstYear


\* ------------------------------------------------ harmgen: yearOfTimestamp
\* Timestamps are counted in units of 216 s, the largest unit that divides
\* avgSecPerYear, the day and yearOneStart; a timestamp in seconds enters the
\* division and the comparisons of yearOfTimestamp only by its quotient by 216.
fineUnits == 200

\* avgSecPerYear (31556952 s) in units of 216 s
avgSecPerYear == 146097

\* harmgen's startYear in units of 216 s
harmgen_startYearFine(year) == fineUnits * harmgen_startYear(year)

\* (mutant) the estimate is returned without the correction step
yearOfTimestamp_Uncorrected(t) ==
  LET est == YearT(TruncDiv(t - fineUnits * yearOneStart, avgSecPerYear) + 1)
  IN  [est |-> est, year |-> est,
       aborted |-> ~(/\ startYearAsserts(est)
                     /\ est > 0 /\ est < 4001
                     /\ harmgen_startYearFine(est) <= t
                     /\ t < harmgen_startYearFine(est + 1))]

\* yearOfTimestamp (t): est is the first value of year, aborted tells that
\* one of the assertions, startYear's or its own, has failed
yearOfTimestamp(t) ==
  LET est == YearT(TruncDiv(t - fineUnits * yearOneStart, avgSecPerYear) + 1)
      dec == YearT(est - 1)
      inc == YearT(est + 1)
  IN  IF ~startYearAsserts(est)
      THEN [est |-> est, year |-> est, aborted |-> TRUE]
      ELSE
        LET below == t < harmgen_startYearFine(est)
            year == IF below THEN dec
                    ELSE IF t >= harmgen_startYearFine(inc) THEN inc ELSE est
        IN  IF ~below /\ ~startYearAsserts(inc)
            THEN [est |-> est, year |-> est, aborted |-> TRUE]
            ELSE [est |-> est, year |-> year,
                  aborted |-> ~(/\ year > 0 /\ year < 4001
                                /\ harmgen_startYearFine(year) <= t
                                /\ t < harmgen_startYearFine(YearT(year + 1)))]

\* the timestamps next to the places where the estimate or a comparison of
\* yearOfTimestamp changes within the year k: the starts of the years k and
\* k+1, the multiples of avgSecPerYear next to them, and the unit before and
\* after each; between two of them yearOfTimestamp is constant
StampsOf(k) ==
  {t \in UNION {{p - 1, p, p + 1} :
                  p \in {harmgen_startYearFine(k), harmgen_startYearFine(k + 1),
                         fineUnits * yearOneStart + (k - 1) * avgSecPerYear,
                         fineUnits * yearOneStart + k * avgSecPerYear}} :
     harmgen_startYearFine(1) <= t /\ t < harmgen_startYearFine(4001)}

NoStamp == [t |-> 0, est |-> 0, year |-> 0, aborted |-> FALSE]

InitStamps ==
  /\ cache = CacheInit
  /\ called = FALSE
  /\ a = ConstituentDefault
  /\ b = ConstituentDefault
  /\ call = NoCall
  /\ steps = 0
  /\ pc = "ready"
  /\ input = [year |-> 1]
  /\ out = NoStamp

\* yearOfTimestamp (t) for a timestamp of the year at hand
StampApply ==
  /\ pc = "ready"
  /\ \E t \in StampsOf(input.year) :
       LET r == yearOfTimestamp(t)
       IN  /\ out' = [t |-> t, est |-> r.est, year |-> r.year, aborted |-> r.aborted]
           /\ pc' = IF r.aborted THEN "aborted" ELSE "returned"
  /\ UNCHANGED << cache, called, a, b, call, steps, input >>

\* on to the next year
StampNextYear ==
  /\ pc \in {"ready", "returned"}
  /\ input.year < 4000
  /\ input' = [year |-> input.year + 1]
  /\ pc' = "ready"
  /\ out' = NoStamp
  /\ UNCHANGED << cache, called, a, b, call, steps >>

NextStamps ==
  \/ StampApply
  \/ StampNextYear

SpecStamps == InitStamps /\ [][NextStamps]_vars

\* C29: for every timestamp t with startYear(1) <= t < startYear(4001),
\* yearOfTimestamp(t) returns the one year y of 1..4000 with
\* startYear(y) <= t < startYear(y+1); the estimate is off by at most one
\* year, and no assertion of yearOfTimestamp or of startYear fails.
C29_YearOfTimestamp ==
  /\ pc # "aborted"
  /\ pc = "returned" =>
       /\ out.year \in 1..4000
       /\ harmgen_startYearFine(out.year) <= out.t
       /\ out.t < harmgen_startYearFine(out.year + 1)
       /\ \A y \in {z \in (out.year - 2)..(out.year + 2) : 1 <= z /\ z <= 4000} :
            (harmgen_startYearFine(y) <= out.t /\ out.t < harmgen_startYearFine(y + 1))
              => y = out.year
       /\ out.est - out.year \in {-1, 0, 1}
       /\ out.est \in 1..4000

\* the last 216 s of the leap year 4, for which the estimate is the year 5
C29_Witness ==
  /\ pc = "returned"
  /\ out.t = harmgen_startYearFine(5) - 1
  /\ out.est = 5
  /\ out.year = 4


\* ------------------------------------------------- windows of the series
\* the years c..d of a series built for firstYear..
Window(x, firstYear, c, d) ==
  [speed |-> x.speed,
   Vpu |-> [i \in 1..(d - c + 1) |-> x.Vpu[i + c - firstYear]],
   f |-> [i \in 1..(d - c + 1) |-> x.f[i + c - firstYear]]]

Series(x) == [speed |-> x.speed, Vpu |-> x.Vpu, f |-> x.f]

\* the ranges [c, d] within [firstYear, lastYear]
Within(firstYear, lastYear) ==
  {w \in (firstYear..lastYear) \X (firstYear..lastYear) : w[1] <= w[2]}

\* C30: for a Basic or Doodson constituent built for the years a..b, and
\* every [c, d] within [a, b], the elements of Vpu and f for the years c..d
\* and the speed are those of the constituent built with the same
\* coefficients (and satellites) and the same speed epoch for the years c..d.
C30_SeriesByCalendarYear ==
  pc = "built" =>
    /\ call.kind = "Basic" =>
         \A i \in SampleRows :
           a = BuildTerm(i, call.firstYear, call.lastYear, call.epochForSpeed) =>
             \A w \in Within(call.firstYear, call.lastYear) :
               Window(a, call.firstYear, w[1], w[2])
                 = Series(Basic(BaseTable[i][1], BaseTable[i][2], BaseTable[i][3],
                                BaseTable[i][4], w[1], w[2], call.epochForSpeed))
    /\ call.kind = "Doodson" =>
         \A sats \in SatLists :
           a = Doodson(BaseTable[4][1], BaseTable[4][2], sats, call.firstYear,
                       call.lastYear, call.epochForSpeed) =>
             \A w \in Within(call.firstYear, call.lastYear) :
               Window(a, call.firstYear, w[1], w[2])
                 = Series(Doodson(BaseTable[4][1], BaseTable[4][2], sats,
                                  w[1], w[2], call.epochForSpeed))
    /\ call.kind \in {"Basic", "Doodson"} =>
         /\ Len(a.Vpu) = call.lastYear - call.firstYear + 1
         /\ \/ \E i \in SampleRows :
                 a = BuildTerm(i, call.firstYear, call.lastYear, call.epochForSpeed)
            \/ \E sats \in SatLists :
                 a = Doodson(BaseTable[4][1], BaseTable[4][2], sats,
                             call.firstYear, call.lastYear, call.epochForSpeed)

\* a Basic constituent of two years whose elements differ, with the speed
\* epoch in the second year
C30_Witness ==
  /\ pc = "built"
  /\ call.kind = "Basic"
  /\ call.lastYear = call.firstYear + 1
  /\ call.epochForSpeed = call.lastYear
  /\ a.Vpu[1] # a.Vpu[2]
  /\ a.f[1] # a.f[2]

====
